---------------------------- MODULE Spec2Model ----------------------------
(***************************************************************************)
(* A model of the dog shelter notification service: main.py (the cycle and *)
(* its scheduler), src/scraper.py (the age normalizer, URL resolution,     *)
(* name cleaning, the four template detectors and scrape_dogs),            *)
(* src/storage.py and src/notifier.py.                                     *)
(*                                                                         *)
(* Text is a sequence of one-character strings, so that the regular        *)
(* expressions of the source are computed character by character.          *)
(* Ages are exact rationals counted in units of 1/(12*52) year.            *)
(***************************************************************************)
EXTENDS Integers, Sequences, FiniteSets, TLC

VARIABLES
    pc,               \* where the process is: see the actions
    trigger,          \* what started the cycle: "startup", "scheduled", or
                      \* "call" for a bare call of scrape_dogs
    ticks,            \* sleeps of the main loop since the job was last due
    response,         \* scrape_dogs: what requests.get came to
    exc,              \* scrape_dogs: the exception it raised, "none" if none
    dogs,             \* scrape_dogs: the list it returned
    consulted,        \* scrape_dogs: the detectors it has called, in order
    fetches,          \* requests.get calls of this cycle
    current_dogs,     \* check_for_new_dogs: its locals
    known_dog_names,
    new_dogs,
    next_dog,         \* position of the for loop over new_dogs
    csv_file,         \* the CSV file at CSV_FILE_PATH
    csv_before,       \* the CSV file as it was when the cycle started
    reads,            \* load_existing_dogs calls of this cycle
    writes,           \* save_dogs calls of this cycle
    notified,         \* send_notification calls of this cycle, with results
    notified_before,  \* names notified in an earlier cycle that every list
                      \* saved since has held
    outcome,          \* how the last finished cycle ended
    age_input,        \* parse_age: the argument
    age_given,        \* the counts <<years, months, weeks>> the argument was
                      \* written from, <<>> for a free text
    total_years,      \* parse_age: the value returned (in 1/624 year)
    age_pc,           \* parse_age: "call" before the call, "returned" after
    call_input,       \* a function called on its own: its arguments
    call_output,      \* the value it returned
    call_pc           \* "call" before the call, "returned" after

ageVars == <<age_input, age_given, total_years, age_pc>>

callVars == <<call_input, call_output, call_pc>>

scrapeVars == <<response, exc, dogs, consulted, fetches>>

cycleVars ==
    <<current_dogs, known_dog_names, new_dogs, next_dog, reads, writes, notified,
      notified_before>>

storeVars == <<csv_file, csv_before>>

vars == <<pc, trigger, ticks, outcome, scrapeVars, cycleVars, storeVars, ageVars, callVars>>

----------------------------------------------------------------------------
(* Bounds of the model.                                                    *)

\* Largest count written in a generated age text ("12 months").
MaxCount == 12
\* Longest free text handed to parse_age.
MaxJunkLen == 3
\* Most fragments (elements and table rows) of a page handed to scrape_dogs.
MaxFrags == 3
\* Most fragments of a page served to the running service.
MaxSvcFrags == 2
\* Sleeps of the main loop between two runs of the scheduled job.
IntervalTicks == 2

----------------------------------------------------------------------------
(* Text helpers: Python's str methods and the regex atoms the source uses. *)

\* Python's None, where a text is expected.
None == <<"None">>

\* No function is being called on its own.
CallIdle == call_input = None /\ call_output = None /\ call_pc = "off"

DigitChars == {"0", "1", "2", "3", "4", "5", "6", "7", "8", "9"}

SpaceChars == {" "}

\* \d
IsDigit(c) == c \in DigitChars

\* \s
IsSpace(c) == c \in SpaceChars

\* str.lower(), on the letters the model writes in upper case.
LowerChar(c) ==
    CASE c = "Y" -> "y"
      [] c = "M" -> "m"
      [] c = "W" -> "w"
      [] c = "R" -> "r"
      [] c = "B" -> "b"
      [] c = "A" -> "a"
      [] c = "H" -> "h"
      [] c = "S" -> "s"
      [] c = "G" -> "g"
      [] OTHER -> c

Lower(s) == [i \in 1..Len(s) |-> LowerChar(s[i])]

\* s[p:] of Python, with p counted from 1.
From(s, p) == SubSeq(s, p, Len(s))

\* str.startswith(prefix), looked up at position p.
StartsWithAt(s, p, prefix) ==
    /\ p + Len(prefix) - 1 <= Len(s)
    /\ SubSeq(s, p, p + Len(prefix) - 1) = prefix

\* The end of the longest run of characters of class C that starts at p:
\* the first position at or after p whose character is not in C.
RECURSIVE RunEnd(_, _, _)
RunEnd(s, p, C) ==
    IF p <= Len(s) /\ s[p] \in C THEN RunEnd(s, p + 1, C) ELSE p

\* str.strip(): leading and trailing whitespace removed.
RECURSIVE RStrip(_)
RStrip(s) ==
    IF s # <<>> /\ IsSpace(s[Len(s)]) THEN RStrip(SubSeq(s, 1, Len(s) - 1)) ELSE s

Strip(s) == RStrip(From(s, RunEnd(s, 1, SpaceChars)))

\* int(digits)
DigitValue(c) ==
    CASE c = "0" -> 0 [] c = "1" -> 1 [] c = "2" -> 2 [] c = "3" -> 3
      [] c = "4" -> 4 [] c = "5" -> 5 [] c = "6" -> 6 [] c = "7" -> 7
      [] c = "8" -> 8 [] c = "9" -> 9

RECURSIVE ToInt(_)
ToInt(ds) ==
    IF ds = <<>> THEN 0 ELSE 10 * ToInt(SubSeq(ds, 1, Len(ds) - 1)) + DigitValue(ds[Len(ds)])

\* The least element of a non-empty set of positions (re.search is leftmost).
Leftmost(P) == CHOOSE p \in P : \A q \in P : p <= q

----------------------------------------------------------------------------
(* parse_age                                                               *)

MonthsPerYear == 12
WeeksPerYear == 52
\* One year, in the unit ages are counted in.
Year == MonthsPerYear * WeeksPerYear

\* re.sub(r'\s+old\s*$', '', age_text): the leftmost position from which
\* whitespace, "old", optional whitespace and the end of the text follow
\* is where the text is cut.
OldSuffixAt(s, p) ==
    /\ p <= Len(s) /\ IsSpace(s[p])
    /\ \E q \in p + 1 .. Len(s) :
          /\ \A i \in p .. q - 1 : IsSpace(s[i])
          /\ StartsWithAt(s, q, <<"o", "l", "d">>)
          /\ \A i \in q + 3 .. Len(s) : IsSpace(s[i])

StripOld(s) ==
    LET P == {p \in 1..Len(s) : OldSuffixAt(s, p)}
    IN  IF P = {} THEN s ELSE SubSeq(s, 1, Leftmost(P) - 1)

\* A variant of UnitMatchAt in which the unit word is optional, so that a
\* bare number matches every unit: C10 tells it from the pattern of the code.
UnitMatchAt_optional_word(s, p, words) ==
    p <= Len(s) /\ IsDigit(s[p])

\* (\d+)\s*(?:w1|w2)s? tried at position p. \d+ and \s* are greedy and
\* what follows each can be neither a digit nor whitespace, so the longest
\* runs are the only way to match; the optional s never decides a match.
UnitMatchAt(s, p, words) ==
    /\ p <= Len(s) /\ IsDigit(s[p])
    /\ LET q == RunEnd(s, RunEnd(s, p, DigitChars), SpaceChars)
       IN  \E w \in words : StartsWithAt(s, q, w)

\* re.search(...): the match object, here the value of its group(1), or
\* NoMatch.
NoMatch == -1

UnitSearch(s, words) ==
    LET P == {p \in 1..Len(s) : UnitMatchAt(s, p, words)}
    IN  IF P = {} THEN NoMatch
        ELSE LET p == Leftmost(P)
             IN  ToInt(SubSeq(s, p, RunEnd(s, p, DigitChars) - 1))

YearWords == {<<"y", "e", "a", "r">>, <<"y", "r">>}
MonthWords == {<<"m", "o", "n", "t", "h">>, <<"m", "o">>}
WeekWords == {<<"w", "e", "e", "k">>, <<"w", "k">>}

year_match(s) == UnitSearch(s, YearWords)
month_match(s) == UnitSearch(s, MonthWords)
week_match(s) == UnitSearch(s, WeekWords)

\* A variant of parse_age that stops at the first unit that matches (an
\* elif chain): C9 tells it from the three independent ifs of the code.
parse_age_first_unit(text) ==
    IF text = None \/ text = <<>> THEN 0
    ELSE LET t == StripOld(Lower(Strip(text)))
             y == year_match(t)
             m == month_match(t)
             w == week_match(t)
         IN  IF y # NoMatch THEN y * Year
             ELSE IF m # NoMatch THEN m * (Year \div MonthsPerYear)
             ELSE IF w # NoMatch THEN w * (Year \div WeeksPerYear)
             ELSE 0

parse_age(text) ==
    IF text = None \/ text = <<>> THEN 0
    ELSE LET t == StripOld(Lower(Strip(text)))
             y == year_match(t)
             m == month_match(t)
             w == week_match(t)
         IN    (IF y # NoMatch THEN y * Year ELSE 0)
             + (IF m # NoMatch THEN m * (Year \div MonthsPerYear) ELSE 0)
             + (IF w # NoMatch THEN w * (Year \div WeeksPerYear) ELSE 0)

\* The first position at or after p that holds character ch, Len(s) + 1
\* when there is none.
RECURSIVE FirstAt(_, _, _)
FirstAt(s, p, ch) ==
    IF p <= Len(s) /\ s[p] # ch THEN FirstAt(s, p + 1, ch) ELSE p

\* sub in s (a regex that is a literal, searched for).
Contains(s, sub) == \E p \in 1..Len(s) + 1 : StartsWithAt(s, p, sub)

\* ' '.join(tokens)
RECURSIVE JoinTokens(_)
JoinTokens(tokens) ==
    IF tokens = <<>> THEN <<>>
    ELSE IF Len(tokens) = 1 THEN tokens[1]
    ELSE tokens[1] \o <<" ">> \o JoinTokens(Tail(tokens))

\* Python's truth value of a text or of None.
Falsy(t) == t = None \/ t = <<>>

----------------------------------------------------------------------------
(* _clean_petharbor_name                                                   *)

\* \s*\([^)]*\)\s*$ tried at position p: whitespace, "(", everything up to
\* the first ")" after it, whitespace, the end of the text.
ParenSuffixAt(s, p) ==
    LET q == RunEnd(s, p, SpaceChars)
    IN  /\ q <= Len(s) /\ s[q] = "("
        /\ LET r == FirstAt(s, q + 1, ")")
           IN  /\ r <= Len(s)
               /\ \A i \in r + 1 .. Len(s) : IsSpace(s[i])

\* A variant of _clean_petharbor_name without the test for an empty result,
\* which reports the empty text as a name: C17 tells it from the code.
_clean_petharbor_name_keeping_empty(raw_name) ==
    LET P == {p \in 1..Len(raw_name) : ParenSuffixAt(raw_name, p)}
    IN  Strip(IF P = {} THEN raw_name
              ELSE SubSeq(raw_name, 1, Leftmost(P) - 1))

\* re.sub(r"\s*\([^)]*\)\s*$", "", raw_name).strip(), None when empty.
_clean_petharbor_name(raw_name) ==
    LET P == {p \in 1..Len(raw_name) : ParenSuffixAt(raw_name, p)}
        cleaned == Strip(IF P = {} THEN raw_name
                         ELSE SubSeq(raw_name, 1, Leftmost(P) - 1))
    IN  IF cleaned # <<>> THEN cleaned ELSE None

----------------------------------------------------------------------------
(* _resolve_url and urllib.parse.urljoin                                   *)
(*                                                                         *)
(* Addresses are written over letters, ":", "/" and "[": none holds a      *)
(* query, a fragment or a dot segment, which urljoin would treat further.  *)

LetterChars == {"a", "d", "f", "h", "p", "s", "t", "x"}

\* What urljoin raises on an address it cannot split (ValueError).
UrlError == <<"ValueError">>

\* The page's address, SHELTER_URL, as urlparse splits it: https://s/d/p
shelter_url ==
    [scheme |-> <<"h", "t", "t", "p", "s">>, netloc |-> <<"s">>,
     path |-> <<"/", "d", "/", "p">>]

\* urlsplit's scheme: the text before the first ":", when it starts with a
\* letter and holds only scheme characters. 0 when the address has none,
\* else the position of the ":".
SchemeColon(url) ==
    LET i == FirstAt(url, 1, ":")
    IN  IF /\ i <= Len(url) /\ i > 1
           /\ \A k \in 1..i - 1 : url[k] \in LetterChars
        THEN i ELSE 0

\* An absolute address names its scheme.
IsAbsolute(url) == SchemeColon(url) # 0

\* The last "/" of a path, 0 when it has none.
RECURSIVE LastSlash(_)
LastSlash(path) ==
    IF path = <<>> THEN 0
    ELSE IF path[Len(path)] = "/" THEN Len(path)
    ELSE LastSlash(SubSeq(path, 1, Len(path) - 1))

urljoin(base, url) ==
    LET colon == SchemeColon(url)
        scheme == IF colon # 0 THEN Lower(SubSeq(url, 1, colon - 1)) ELSE base.scheme
        rest == From(url, colon + 1)
        has_netloc == StartsWithAt(rest, 1, <<"/", "/">>)
        netloc_end == FirstAt(rest, 3, "/")
        netloc == IF has_netloc THEN SubSeq(rest, 3, netloc_end - 1) ELSE <<>>
        root == base.scheme \o <<":", "/", "/">> \o base.netloc
    IN  IF has_netloc /\ \E k \in 1..Len(netloc) : netloc[k] = "["
        THEN UrlError                \* urlsplit: "Invalid IPv6 URL"
        ELSE IF scheme # base.scheme THEN url
        ELSE IF has_netloc THEN scheme \o <<":">> \o rest
        ELSE IF rest = <<>> THEN root \o base.path
        ELSE IF rest[1] = "/" THEN root \o rest
        ELSE root \o SubSeq(base.path, 1, LastSlash(base.path)) \o rest

_resolve_url(href, base_url) ==
    IF Falsy(href) THEN <<>>
    ELSE IF StartsWithAt(href, 1, <<"h", "t", "t", "p">>) THEN href
    ELSE urljoin(base_url, href)

----------------------------------------------------------------------------
(* The age texts parse_age is called with.                                 *)

\* A unit that the text does not mention.
Absent == <<>>

\* A unit that the text gives the count n of.
Given(n) == <<n>>

Counts(N) == {Absent} \cup {Given(n) : n \in N}

DigitOf(d) ==
    CASE d = 0 -> "0" [] d = 1 -> "1" [] d = 2 -> "2" [] d = 3 -> "3"
      [] d = 4 -> "4" [] d = 5 -> "5" [] d = 6 -> "6" [] d = 7 -> "7"
      [] d = 8 -> "8" [] d = 9 -> "9"

\* str(n)
RECURSIVE Digits(_)
Digits(n) == IF n < 10 THEN <<DigitOf(n)>> ELSE Digits(n \div 10) \o <<DigitOf(n % 10)>>

\* The spellings of each unit: full word and abbreviation, singular and
\* plural, and a capitalised one.
YearForms == {<<"y", "e", "a", "r">>, <<"y", "e", "a", "r", "s">>, <<"y", "r">>,
              <<"y", "r", "s">>, <<"Y", "e", "a", "r", "s">>}
MonthForms == {<<"m", "o", "n", "t", "h">>, <<"m", "o", "n", "t", "h", "s">>, <<"m", "o">>,
               <<"m", "o", "s">>, <<"M", "o", "n", "t", "h", "s">>}
WeekForms == {<<"w", "e", "e", "k">>, <<"w", "e", "e", "k", "s">>, <<"w", "k">>,
              <<"w", "k", "s">>, <<"W", "e", "e", "k", "s">>}

\* The counts written in texts that name several units.
ComboCounts == {1, 4, MaxCount}

Present(c) == Cardinality({u \in {"y", "m", "w"} : c[u] # Absent})

\* What an age text is written from: a count per unit (or Absent), the
\* spelling of each unit, what separates a count from its unit and one
\* unit from the next, the order of the units and a trailing "old".
AgeCases ==
    {c \in [y : Counts(0..MaxCount), m : Counts(0..MaxCount), w : Counts(0..MaxCount),
            yform : YearForms, mform : MonthForms, wform : WeekForms,
            sep : {<<>>, <<" ">>}, joiner : {<<" ">>, <<",", " ">>},
            old : BOOLEAN, rev : BOOLEAN] :
        \/ /\ Present(c) = 1
           /\ c.joiner = <<" ">> /\ ~c.rev
           /\ c.y = Absent => c.yform = <<"y", "e", "a", "r">>
           /\ c.m = Absent => c.mform = <<"m", "o", "n", "t", "h">>
           /\ c.w = Absent => c.wform = <<"w", "e", "e", "k">>
        \/ /\ Present(c) > 1
           /\ \A u \in {"y", "m", "w"} : c[u] \in Counts(ComboCounts)
           /\ c.sep = <<" ">>
           /\ c.yform \in {<<"y", "e", "a", "r">>, <<"y", "e", "a", "r", "s">>}
           /\ c.mform = <<"m", "o", "n", "t", "h", "s">>
           /\ c.wform = <<"w", "e", "e", "k", "s">>}

Part(n, sep, form) == IF n = Absent THEN <<>> ELSE <<Digits(n[1]) \o sep \o form>>

RECURSIVE Join(_, _)
Join(parts, joiner) ==
    IF parts = <<>> THEN <<>>
    ELSE IF Len(parts) = 1 THEN parts[1]
    ELSE parts[1] \o joiner \o Join(Tail(parts), joiner)

Reverse(s) == [i \in 1..Len(s) |-> s[Len(s) + 1 - i]]

FormatAge(c) ==
    LET parts == Part(c.y, c.sep, c.yform) \o Part(c.m, c.sep, c.mform)
                 \o Part(c.w, c.sep, c.wform)
    IN  Join(IF c.rev THEN Reverse(parts) ELSE parts, c.joiner)
        \o (IF c.old THEN <<" ", "o", "l", "d">> ELSE <<>>)

\* Free texts: every text of up to MaxJunkLen characters over a digit,
\* whitespace and the letters of the unit abbreviations, and "unknown".
JunkChars == {"7", " ", "y", "r", "m", "o", "s"}

RECURSIVE TextsUpTo(_, _)
TextsUpTo(C, n) ==
    IF n = 0 THEN {<<>>}
    ELSE LET T == TextsUpTo(C, n - 1)
         IN  T \cup {Append(t, c) : t \in T, c \in C}

Unknown == <<"u", "n", "k", "n", "o", "w", "n">>

FreeTexts == TextsUpTo(JunkChars, MaxJunkLen) \cup {None, Unknown}

AgeInit ==
    /\ \/ \E c \in AgeCases :
             /\ age_input = FormatAge(c)
             /\ age_given = <<c.y, c.m, c.w>>
       \/ /\ age_input \in FreeTexts
          /\ age_given = <<>>
    /\ total_years = 0
    /\ age_pc = "call"
    /\ pc = "off" /\ trigger = "none" /\ ticks = 0 /\ outcome = "none"
    /\ response = [kind |-> "none", status |-> 0,
                   soup |-> [portal |-> "none", elems |-> <<>>, has_table |-> FALSE,
                             rows |-> <<>>]]
    /\ exc = "none" /\ dogs = <<>> /\ consulted = <<>> /\ fetches = 0
    /\ current_dogs = <<>> /\ known_dog_names = {} /\ new_dogs = <<>> /\ next_dog = 0
    /\ reads = 0 /\ writes = 0 /\ notified = <<>> /\ notified_before = {}
    /\ csv_file = [exists |-> FALSE, header |-> <<>>, rows |-> <<>>]
    /\ csv_before = [exists |-> FALSE, header |-> <<>>, rows |-> <<>>]
    /\ CallIdle

ParseAgeCall ==
    /\ age_pc = "call"
    /\ total_years' = parse_age(age_input)
    /\ age_pc' = "returned"
    /\ UNCHANGED <<age_input, age_given>>
    /\ UNCHANGED <<pc, trigger, ticks, outcome, scrapeVars, cycleVars, storeVars, callVars>>

AgeNext == ParseAgeCall

AgeSpec == AgeInit /\ [][AgeNext]_vars

----------------------------------------------------------------------------
(* The fetched page.                                                       *)
(*                                                                         *)
(* A page is what the detectors look at: the elements that are candidate   *)
(* listing fragments, in document order, the rows of its ResultsTable and  *)
(* whether it carries the portal's script token or form. An element's      *)
(* inner markup is given by the parts the parsers read.                    *)

\* A line_<Field> div of a result block: its text_<Field> span (None when
\* it has none) and the texts of its "results" spans.
NoLine == [present |-> FALSE, text_span |-> None, results |-> <<>>]
Line(text_span, results) == [present |-> TRUE, text_span |-> text_span, results |-> results]

\* The element a name is read from: a heading or an anchor.
NoNameEl == [tag |-> "", class |-> <<>>, text |-> <<>>]

\* An img element: its src and data-src attributes (None when not set).
NoImg == [present |-> FALSE, src |-> None, data_src |-> None]
Img(src, data_src) == [present |-> TRUE, src |-> src, data_src |-> data_src]

\* The class-labelled value spans of a card: <span class="breed">...</span>.
NoSpans == [breed |-> <<>>, age |-> <<>>, sex |-> <<>>, size |-> <<>>]

Dog(name, breed, age_years, sex, size, url, image_url) ==
    [name |-> name, breed |-> breed, age_years |-> age_years, sex |-> sex,
     size |-> size, url |-> url, image_url |-> image_url]

\* What parsing one fragment comes to: a Dog, None, or an exception.
NullDog == Dog(<<>>, <<>>, 0, <<>>, <<>>, <<>>, <<>>)
Parsed(dog) == [kind |-> "dog", dog |-> dog]
ParsedNone == [kind |-> "none", dog |-> NullDog]
ParseRaised == [kind |-> "raised", dog |-> NullDog]

\* A Dog built from resolved addresses: _resolve_url raising ends the parse.
DogOrRaise(name, breed, age_years, sex, size, url, image_url) ==
    IF url = UrlError \/ image_url = UrlError THEN ParseRaised
    ELSE Parsed(Dog(name, breed, age_years, sex, size, url, image_url))

\* img_el.get("src", "") or img_el.get("data-src", "")
ImgSrc(img) ==
    IF ~Falsy(img.src) THEN img.src
    ELSE IF img.data_src # None THEN img.data_src ELSE <<>>

\* A variant of the detectors' loop with the try around the loop and not
\* inside it, so that the first exception ends the enumeration: C6 tells it
\* from the loop of the code.
RECURSIVE Collect_until_exception(_, _)
Collect_until_exception(results, found) ==
    IF results = <<>> THEN found
    ELSE LET r == Head(results)
         IN  IF r.kind = "raised" THEN found
             ELSE IF r.kind = "dog"
                  THEN Collect_until_exception(Tail(results), Append(found, r.dog))
                  ELSE Collect_until_exception(Tail(results), found)

\* A variant of the detectors' loop that puts each new listing in front of
\* the list: C16 tells it from the append of the code.
RECURSIVE Collect_newest_first(_, _)
Collect_newest_first(results, found) ==
    IF results = <<>> THEN found
    ELSE LET r == Head(results)
         IN  IF r.kind = "dog" THEN Collect_newest_first(Tail(results), <<r.dog>> \o found)
             ELSE Collect_newest_first(Tail(results), found)

\* The for loop of every detector: a fragment whose parse returned a Dog is
\* appended; None is passed over; an exception is caught, logged and the
\* loop goes on with the next fragment.
RECURSIVE Collect(_, _)
Collect(results, found) ==
    IF results = <<>> THEN found
    ELSE LET r == Head(results)
         IN  IF r.kind = "dog" THEN Collect(Tail(results), Append(found, r.dog))
             ELSE Collect(Tail(results), found)

----------------------------------------------------------------------------
(* Detector A: Result_* divs                                               *)

ResultPrefix == <<"r", "e", "s", "u", "l", "t", "_">>
gridResult == <<"g", "r", "i", "d", "R", "e", "s", "u", "l", "t">>

HasToken(e, token) == \E k \in 1..Len(e.class) : e.class[k] = token

\* soup.find_all("div", id=re.compile(r"^Result_", re.I)), else
\* soup.find_all("div", class_="gridResult")
result_divs(soup) ==
    LET by_id == SelectSeq(soup.elems,
                   LAMBDA e : e.tag = "div" /\ StartsWithAt(Lower(e.id), 1, ResultPrefix))
    IN  IF by_id # <<>> THEN by_id
        ELSE SelectSeq(soup.elems, LAMBDA e : e.tag = "div" /\ HasToken(e, gridResult))

_extract_result_div_text(result_div, field_name) ==
    LET line_div == result_div.lines[field_name]
    IN  IF ~line_div.present THEN <<>>
        ELSE IF line_div.text_span # None THEN Strip(line_div.text_span)
        ELSE IF line_div.results # <<>>
             THEN Strip(line_div.results[Len(line_div.results)])
        ELSE <<>>

\* ['\"]
QuoteChars == {"'", "\""}

Details_open == <<"D", "e", "t", "a", "i", "l", "s", "(">>

\* The end of the longest run of characters other than quotes from p on.
RECURSIVE UntilQuote(_, _)
UntilQuote(s, p) ==
    IF p <= Len(s) /\ s[p] \notin QuoteChars THEN UntilQuote(s, p + 1) ELSE p

\* The rest of the pattern from the n-th argument on, tried at position p:
\* \s*['\"]([^'\"]*)['\"]?\s*, for the first two arguments and
\* \s*['\"]([^'\"]*)['\"]?\s*\) for the third. The value is the groups
\* from the n-th on, <<>> when there is no match. MatchGroup tries the
\* group at g with e characters first and with fewer when the rest of the
\* pattern fails, as the greedy star of the pattern does.
RECURSIVE MatchArgs(_, _, _)
RECURSIVE MatchGroup(_, _, _, _)
MatchGroup(s, g, e, n) ==
    LET after == g + e
        closed == IF after <= Len(s) /\ s[after] \in QuoteChars THEN after + 1 ELSE after
        sep == RunEnd(s, closed, SpaceChars)
        group == SubSeq(s, g, after - 1)
        found == IF sep > Len(s) \/ s[sep] # (IF n < 3 THEN "," ELSE ")") THEN <<>>
                 ELSE IF n = 3 THEN <<group>>
                 ELSE LET rest == MatchArgs(s, sep + 1, n + 1)
                      IN  IF rest = <<>> THEN <<>> ELSE <<group>> \o rest
    IN  IF found # <<>> THEN found
        ELSE IF e = 0 THEN <<>>
        ELSE MatchGroup(s, g, e - 1, n)

MatchArgs(s, p, n) ==
    LET q == RunEnd(s, p, SpaceChars)
    IN  IF q > Len(s) \/ s[q] \notin QuoteChars THEN <<>>
        ELSE MatchGroup(s, q + 1, UntilQuote(s, q + 1) - (q + 1), n)

\* re.search of the Details(...) pattern: the groups of the leftmost
\* match, <<>> when there is none.
DetailsSearch(onclick) ==
    LET at(p) == IF StartsWithAt(onclick, p, Details_open)
                 THEN MatchArgs(onclick, p + Len(Details_open), 1) ELSE <<>>
        P == {p \in 1..Len(onclick) : at(p) # <<>>}
    IN  IF P = {} THEN <<>> ELSE at(Leftmost(P))

\* element.onclick is the text of the attribute, <<>> when it is not set.
_extract_onclick_url(element, base_url) ==
    LET match == DetailsSearch(element.onclick)
    IN  IF element.onclick = <<>> \/ match = <<>> THEN <<>>
        ELSE _resolve_url(<<"/">> \o match[1] \o <<"/", "D", "e", "t", "a", "i", "l", "s", "/">>
                          \o match[2] \o <<"/">> \o match[3], base_url)

\* A variant of the div parser that prefers the onclick attribute to the
\* anchor: C22 tells it from the code, which looks at the anchor first.
_parse_result_div_onclick_first(result_div, base_url) ==
    LET raw == _extract_result_div_text(result_div, "Name")
    IN  IF Falsy(raw) THEN ParsedNone
        ELSE LET cleaned == _clean_petharbor_name(raw)
                 name == IF ~Falsy(cleaned) THEN cleaned ELSE raw
                 sex == _extract_result_div_text(result_div, "Gender")
                 breed == _extract_result_div_text(result_div, "Breed")
                 age_text == _extract_result_div_text(result_div, "Age")
                 image_url == IF result_div.img.present
                              THEN _resolve_url(ImgSrc(result_div.img), base_url)
                              ELSE <<>>
                 url == IF result_div.onclick # <<>>
                        THEN _extract_onclick_url(result_div, base_url)
                        ELSE IF result_div.href # None
                        THEN _resolve_url(result_div.href, base_url)
                        ELSE <<>>
             IN  DogOrRaise(name, breed, parse_age(age_text), sex, <<>>, url, image_url)

_parse_result_div(result_div, base_url) ==
    LET raw == _extract_result_div_text(result_div, "Name")
    IN  IF Falsy(raw) THEN ParsedNone
        ELSE LET cleaned == _clean_petharbor_name(raw)
                 name == IF ~Falsy(cleaned) THEN cleaned ELSE raw
                 sex == _extract_result_div_text(result_div, "Gender")
                 breed == _extract_result_div_text(result_div, "Breed")
                 age_text == _extract_result_div_text(result_div, "Age")
                 image_url == IF result_div.img.present
                              THEN _resolve_url(ImgSrc(result_div.img), base_url)
                              ELSE <<>>
                 url == IF result_div.href # None
                        THEN _resolve_url(result_div.href, base_url)
                        ELSE _extract_onclick_url(result_div, base_url)
             IN  DogOrRaise(name, breed, parse_age(age_text), sex, <<>>, url, image_url)

\* The value returned: the listings, <<>> standing for None.
_try_result_divs(soup, base_url) ==
    LET divs == result_divs(soup)
    IN  IF divs = <<>> THEN <<>>
        ELSE Collect([i \in 1..Len(divs) |-> _parse_result_div(divs[i], base_url)], <<>>)

----------------------------------------------------------------------------
(* Detector B: PetHarbor Shelter Portal cards                              *)

card == <<"c", "a", "r", "d">>
card_title == <<"c", "a", "r", "d", "-", "t", "i", "t", "l", "e">>

\* soup.find(string=re.compile(r"AdoptableAnimals|PetHarborShelter", re.I))
\* or soup.find("form", action=re.compile(r"PetHarborShelter", re.I))
is_petharbor(soup) == soup.portal = "script" \/ soup.portal = "form"

\* soup.select(".card"), else soup.find_all("div", class_=re.compile(r"card", re.I))
portal_cards(soup) ==
    LET cards == SelectSeq(soup.elems, LAMBDA e : HasToken(e, card))
    IN  IF cards # <<>> THEN cards
        ELSE SelectSeq(soup.elems,
               LAMBDA e : e.tag = "div"
                          /\ \E k \in 1..Len(e.class) : Contains(Lower(e.class[k]), card))

\* ^(breed|age|sex|gender|size|weight|color)\s*:
FieldLabels ==
    {<<"b", "r", "e", "e", "d">>, <<"a", "g", "e">>, <<"s", "e", "x">>,
     <<"g", "e", "n", "d", "e", "r">>, <<"s", "i", "z", "e">>,
     <<"w", "e", "i", "g", "h", "t">>, <<"c", "o", "l", "o", "r">>}

IsFieldLabel(raw) ==
    \E l \in FieldLabels :
        /\ StartsWithAt(Lower(raw), 1, l)
        /\ LET q == RunEnd(raw, Len(l) + 1, SpaceChars)
           IN  q <= Len(raw) /\ raw[q] = ":"

_extract_petharbor_name(c) ==
    LET el == c.name_el
        raw == Strip(el.text)
        bolds == SelectSeq(c.bold, LAMBDA b : Strip(b) # <<>> /\ ~IsFieldLabel(Strip(b)))
    IN  IF /\ \/ el.tag \in {"h1", "h2", "h3", "h4", "h5"}
              \/ card_title \in {el.class[k] : k \in 1..Len(el.class)}
           /\ raw # <<>>
        THEN _clean_petharbor_name(raw)
        ELSE IF bolds # <<>> THEN _clean_petharbor_name(Strip(bolds[1]))
        ELSE None

\* The first strategy of the lookup: an element whose class matches the
\* label and whose text is a value.
_extract_labeled_value(c, label) == Strip(c.spans[label])

_parse_petharbor_card(c, base_url) ==
    LET name == _extract_petharbor_name(c)
    IN  IF Falsy(name) THEN ParsedNone
        ELSE LET image_url == IF c.img.present THEN _resolve_url(ImgSrc(c.img), base_url)
                              ELSE <<>>
                 url == IF c.href # None THEN _resolve_url(c.href, base_url) ELSE <<>>
                 breed == _extract_labeled_value(c, "breed")
                 age_text == _extract_labeled_value(c, "age")
                 sex == _extract_labeled_value(c, "sex")
                 size == _extract_labeled_value(c, "size")
             IN  DogOrRaise(name, breed, parse_age(age_text), sex, size, url, image_url)

_try_petharbor_portal(soup, base_url) ==
    IF ~is_petharbor(soup) THEN <<>>
    ELSE LET cards == portal_cards(soup)
         IN  Collect([i \in 1..Len(cards) |-> _parse_petharbor_card(cards[i], base_url)], <<>>)

----------------------------------------------------------------------------
(* Detector C: PetHarbor classic ResultsTable                              *)

\* A td: its text and the href of its anchor (None when it has none).
Cell(text, href) == [text |-> text, href |-> href]

MinColumns == 6

\* A variant of the row parser that takes the breed from the colour column
\* (column 3): C21 tells it from the code, which takes it from column 4.
_parse_table_row_breed_from_colour(tds, base_url) ==
    IF Len(tds) < MinColumns THEN ParsedNone
    ELSE LET url == IF tds[1].href # None THEN _resolve_url(tds[1].href, base_url)
                    ELSE <<>>
             name == _clean_petharbor_name(Strip(tds[2].text))
         IN  IF url = UrlError THEN ParseRaised
             ELSE IF Falsy(name) THEN ParsedNone
             ELSE Parsed(Dog(name, Strip(tds[4].text), parse_age(Strip(tds[6].text)),
                             Strip(tds[3].text), <<>>, url, <<>>))

\* The body of the loop over rows[1:], for one row.
_parse_table_row(tds, base_url) ==
    IF Len(tds) < MinColumns THEN ParsedNone
    ELSE LET url == IF tds[1].href # None THEN _resolve_url(tds[1].href, base_url)
                    ELSE <<>>
             name == _clean_petharbor_name(Strip(tds[2].text))
         IN  IF url = UrlError THEN ParseRaised
             ELSE IF Falsy(name) THEN ParsedNone
             ELSE Parsed(Dog(name, Strip(tds[5].text), parse_age(Strip(tds[6].text)),
                             Strip(tds[3].text), <<>>, url, <<>>))

\* table.find_all("tr")[1:]
table_rows(soup) == IF soup.rows = <<>> THEN <<>> ELSE Tail(soup.rows)

_try_petharbor_classic(soup, base_url) ==
    IF ~soup.has_table THEN <<>>
    ELSE LET rows == table_rows(soup)
         IN  Collect([i \in 1..Len(rows) |-> _parse_table_row(rows[i], base_url)], <<>>)

----------------------------------------------------------------------------
(* Detector D: generic cards                                               *)

ClassAttr(e) == JoinTokens(e.class)

\* [class*='a'] [class*='b']: an element whose class attribute holds b
\* inside one whose class attribute holds a.
Inside(e, outer, inner) == Contains(e.container, outer) /\ Contains(ClassAttr(e), inner)

item == <<"i", "t", "e", "m">>
listing == <<"l", "i", "s", "t", "i", "n", "g">>
animal_ == <<"a", "n", "i", "m", "a", "l", "-">>
pet_ == <<"p", "e", "t", "-">>
dog_ == <<"d", "o", "g", "-">>
list == <<"l", "i", "s", "t">>

\* The selectors, in the order they are tried.
SelectorCount == 11

Selects(k, e) ==
    CASE k = 1 -> Contains(ClassAttr(e), animal_ \o card)
      [] k = 2 -> Contains(ClassAttr(e), pet_ \o card)
      [] k = 3 -> Contains(ClassAttr(e), dog_ \o card)
      [] k = 4 -> Inside(e, animal_ \o list, item)
      [] k = 5 -> Inside(e, pet_ \o list, item)
      [] k = 6 -> Inside(e, <<"g", "r", "i", "d">>, card)
      [] k = 7 -> Inside(e, <<"a", "d", "o", "p", "t", "a", "b", "l", "e">>, card)
      [] k = 8 -> Inside(e, <<"a", "v", "a", "i", "l", "a", "b", "l", "e">>, card)
      [] k = 9 -> HasToken(e, dog_ \o listing)
      [] k = 10 -> HasToken(e, pet_ \o listing)
      [] k = 11 -> HasToken(e, animal_ \o listing)

_find_animal_cards(soup) ==
    LET hits == {k \in 1..SelectorCount : \E i \in 1..Len(soup.elems) : Selects(k, soup.elems[i])}
    IN  IF hits # {}
        THEN SelectSeq(soup.elems, LAMBDA e : Selects(Leftmost(hits), e))
        ELSE SelectSeq(soup.elems,
               LAMBDA e : /\ e.tag = "div"
                          /\ \E k \in 1..Len(e.class) :
                                \/ Contains(Lower(e.class[k]), card)
                                \/ Contains(Lower(e.class[k]), item)
                                \/ Contains(Lower(e.class[k]), listing))

\* The field names _parse_card asks for.
kw_breed == <<"b", "r", "e", "e", "d">>
kw_age == <<"a", "g", "e">>
kw_sex == <<"s", "e", "x">>
kw_gender == <<"g", "e", "n", "d", "e", "r">>
kw_size == <<"s", "i", "z", "e">>

\* An element inside a card that holds text and no element: its tag, the
\* tokens of its class attribute, its text. The elements of a card are
\* written as children of the card, in the order of the document.
Node(tag, class, text) == [tag |-> tag, class |-> class, text |-> text]

\* The elements of a card the extractor can meet: the name element, the
\* bold texts, and the spans labelled by their class. (The line_* divs of
\* the Result format carry no class or text with a field name in a card
\* that reaches the generic parser.)
Descendants(c) ==
    (IF c.name_el.tag # ""
     THEN <<Node(c.name_el.tag, c.name_el.class, c.name_el.text)>> ELSE <<>>)
    \o [i \in 1..Len(c.bold) |-> Node("b", <<>>, c.bold[i])]
    \o SelectSeq(<<Node("span", <<kw_breed>>, c.spans.breed),
                   Node("span", <<kw_age>>, c.spans.age),
                   Node("span", <<kw_sex>>, c.spans.sex),
                   Node("span", <<kw_size>>, c.spans.size)>>,
                 LAMBDA n : n.text # <<>>)

\* class_=re.compile(field_name, re.I): a token of the class matches.
ClassMatches(node, field_name) ==
    \E k \in 1..Len(node.class) : Contains(Lower(node.class[k]), field_name)

\* Line 576: the text is the field name alone, empty, or a colon.
LabelOnly(text, field_name) ==
    \/ Lower(text) = field_name
    \/ text = <<>>
    \/ text \in {<<":">>, <<":", " ">>}

\* field_name\s*: (re.I) tried at position p of a text.
LabelAt(text, p, field_name) ==
    /\ StartsWithAt(Lower(text), p, field_name)
    /\ LET q == RunEnd(text, p + Len(field_name), SpaceChars)
       IN  q <= Len(text) /\ text[q] = ":"

LabelPositions(text, field_name) ==
    {p \in 1..Len(text) : LabelAt(text, p, field_name)}

\* re.sub(.*field_name\s*:\s*, "", value, re.I).strip(): what follows the
\* last label of the text.
AfterLabel(value, field_name) ==
    LET P == LabelPositions(value, field_name)
        last == CHOOSE p \in P : \A q \in P : q <= p
        colon == RunEnd(value, last + Len(field_name), SpaceChars)
    IN  IF P = {} THEN Strip(value) ELSE Strip(From(value, colon + 1))

\* The body of the loop over field_names, from the k-th name on
\* (lines 567-597), and the return "" after it (line 599).
RECURSIVE ExtractFrom(_, _, _)
ExtractFrom(children, field_names, k) ==
    IF k > Len(field_names) THEN <<>>
    ELSE LET field_name == field_names[k]
             els == {i \in 1..Len(children) :
                        /\ ClassMatches(children[i], field_name)
                        /\ ~LabelOnly(Strip(children[i].text), field_name)}
             dts == {i \in 1..Len(children) :
                        /\ children[i].tag = "dt" /\ children[i].text # <<>>
                        /\ Contains(Lower(children[i].text), field_name)}
             dds == IF dts = {} THEN {}
                    ELSE {j \in Leftmost(dts) + 1..Len(children) : children[j].tag = "dd"}
             labels == {i \in 1..Len(children) :
                           LabelPositions(children[i].text, field_name) # {}}
         IN  IF els # {} THEN Strip(children[Leftmost(els)].text)
             ELSE IF dds # {} THEN Strip(children[Leftmost(dds)].text)
             ELSE IF labels # {}
                  THEN AfterLabel(Strip(children[Leftmost(labels)].text), field_name)
             ELSE ExtractFrom(children, field_names, k + 1)

\* _extract_field(card, text_content, field_names), on the children of the
\* card; text_content is not used.
_extract_field(children, field_names) == ExtractFrom(children, field_names, 1)

_parse_card(c, base_url) ==
    LET el == c.name_el
        found == \/ /\ el.tag \in {"h2", "h3", "h4", "a"}
                    /\ \E k \in 1..Len(el.class) :
                          \/ Contains(Lower(el.class[k]), <<"n", "a", "m", "e">>)
                          \/ Contains(Lower(el.class[k]), <<"t", "i", "t", "l", "e">>)
                 \/ el.tag \in {"h2", "h3", "h4"}
        name == IF found THEN Strip(el.text) ELSE None
    IN  IF Falsy(name) THEN ParsedNone
        ELSE LET url == IF c.href # None THEN _resolve_url(c.href, base_url) ELSE <<>>
                 image_url == IF c.img.present /\ c.img.src # None
                              THEN _resolve_url(ImgSrc(c.img), base_url)
                              ELSE <<>>
                 breed == _extract_field(Descendants(c), <<kw_breed>>)
                 age_text == _extract_field(Descendants(c), <<kw_age>>)
                 sex == _extract_field(Descendants(c), <<kw_sex, kw_gender>>)
                 size == _extract_field(Descendants(c), <<kw_size>>)
             IN  DogOrRaise(name, breed, parse_age(age_text), sex, size, url, image_url)

\* Lines 127-139 of scrape_dogs: the loop over the generic cards.
generic_cards(soup, base_url) ==
    LET cards == _find_animal_cards(soup)
    IN  Collect([i \in 1..Len(cards) |-> _parse_card(cards[i], base_url)], <<>>)

----------------------------------------------------------------------------
(* The pages the shelter serves.                                           *)

T_O == <<"O">>
T_B == <<"B">>
T_paren == <<"(", "A", ")">>
T_O_paren == T_O \o <<" ">> \o T_paren
T_B_paren == T_B \o <<" ">> \o T_paren
two_years == <<"2", " ", "y", "e", "a", "r", "s">>
eight_years == <<"8", " ", "Y", "e", "a", "r", "s", " ", "o", "l", "d">>
five_years == <<"5", " ", "y", "r", "s">>

\* Addresses: absolute, relative to the root, relative to the page, a
\* relative path whose first segment starts with "http", one urljoin
\* cannot split.
href_abs == <<"h", "t", "t", "p", "s", ":", "/", "/", "h", "/", "x">>
href_root == <<"/", "x">>
href_rel == <<"x">>
href_httpd == <<"h", "t", "t", "p", "d", "/", "x">>
href_bad == <<"/", "/", "[">>

NoLines == [f \in {"Name", "Gender", "Breed", "Age"} |-> NoLine]

Elem(tag, id, class, container, lines, name_el, bold, spans, href, img, onclick) ==
    [tag |-> tag, id |-> id, class |-> class, container |-> container,
     lines |-> lines, name_el |-> name_el, bold |-> bold, spans |-> spans,
     href |-> href, img |-> img, onclick |-> onclick]

Result_1 == <<"R", "e", "s", "u", "l", "t", "_", "1">>

\* <div id="Result_1" class="card"> with line_Name "O (A)" in a text_Name
\* span, an age line of two results spans, and a heading "B".
E_result ==
    Elem("div", Result_1, <<card>>, <<>>,
         [NoLines EXCEPT !["Name"] = Line(T_O_paren, <<>>),
                         !["Age"] = Line(None, <<<<"A", "g", "e">>, two_years>>)],
         [tag |-> "h3", class |-> <<>>, text |-> T_B], <<>>, NoSpans,
         href_rel, Img(href_abs, None), <<>>)

\* <div class="gridResult"> whose name is an accession code alone.
E_paren ==
    Elem("div", <<>>, <<gridResult>>, <<>>,
         [NoLines EXCEPT !["Name"] = Line(None, <<T_paren>>)],
         NoNameEl, <<>>, NoSpans, href_httpd, NoImg, <<>>)

\* <div id="Result_1" class="pet-card"> with no line_Name, a heading "B"
\* and an onclick="Details('a','d','x')".
E_noname ==
    Elem("div", Result_1, <<pet_ \o card>>, <<>>, NoLines,
         [tag |-> "h3", class |-> <<>>, text |-> T_B], <<>>,
         [NoSpans EXCEPT !.age = five_years], None, Img(None, href_rel),
         Details_open \o <<"'", "a", "'", ",", "'", "d", "'", ",", "'", "x", "'", ")">>)

\* <div class="card"> of the portal: <h5 class="card-title">O (A)</h5>.
E_portal ==
    Elem("div", <<>>, <<card>>, <<>>, NoLines,
         [tag |-> "h5", class |-> <<card_title>>, text |-> T_O_paren], <<>>,
         [NoSpans EXCEPT !.age = eight_years], href_root, NoImg, <<>>)

\* <div id="Result_1" class="card"> named "B" by every parser, whose link
\* cannot be resolved.
E_bad ==
    Elem("div", Result_1, <<card>>, <<>>,
         [NoLines EXCEPT !["Name"] = Line(T_B, <<>>)],
         [tag |-> "h3", class |-> <<>>, text |-> T_B], <<>>, NoSpans,
         href_bad, NoImg, <<>>)

\* <li class="item"> inside class="animal-list", named by <a class="name">.
E_item ==
    Elem("li", <<>>, <<item>>, animal_ \o list, NoLines,
         [tag |-> "a", class |-> <<<<"n", "a", "m", "e">>>>, text |-> T_O_paren], <<>>,
         NoSpans, href_rel, NoImg, <<>>)

\* <div class="card"> with no heading and only a label in bold.
E_blank ==
    Elem("div", <<>>, <<card>>, <<>>, NoLines, NoNameEl,
         <<<<"B", "r", "e", "e", "d", ":">>>>, NoSpans, None, NoImg, <<>>)

\* <div class="pet-card"> with a heading "O", a breed, an age and an image.
E_pet ==
    Elem("div", <<>>, <<pet_ \o card>>, <<>>, NoLines,
         [tag |-> "h3", class |-> <<>>, text |-> T_O], <<>>,
         [NoSpans EXCEPT !.breed = T_B, !.age = eight_years], href_abs,
         Img(href_root, None), <<>>)

ElemPool == {E_result, E_paren, E_noname, E_portal, E_bad, E_item, E_blank, E_pet}

\* The header row of the table: th cells, no td.
HeaderRow == <<>>

TextCell(t) == Cell(t, None)

R_good ==
    <<Cell(<<>>, href_rel), TextCell(T_B_paren), TextCell(<<"M">>), TextCell(<<>>),
      TextCell(<<"L">>), TextCell(two_years)>>
R_short == <<Cell(<<>>, href_rel), TextCell(T_O), TextCell(<<"M">>)>>
R_bad ==
    <<Cell(<<>>, href_bad), TextCell(T_O), TextCell(<<"M">>), TextCell(<<>>),
      TextCell(<<"L">>), TextCell(<<>>)>>
R_paren ==
    <<Cell(<<>>, None), TextCell(T_paren), TextCell(<<"M">>), TextCell(<<>>),
      TextCell(<<"L">>), TextCell(two_years)>>

R_old ==
    <<Cell(<<>>, href_abs), TextCell(T_O), TextCell(<<"F">>), TextCell(<<>>),
      TextCell(<<"L">>), TextCell(eight_years)>>

RowPool == {R_good, R_short, R_bad, R_paren, R_old}

RECURSIVE SeqsOfLen(_, _)
SeqsOfLen(S, n) ==
    IF n = 0 THEN {<<>>}
    ELSE {Append(q, x) : q \in SeqsOfLen(S, n - 1), x \in S}

SeqsUpTo(S, n) == UNION {SeqsOfLen(S, k) : k \in 0..n}

\* Every page of at most n fragments (elements and table rows together):
\* elements of E in any order, and no table or one of a header row and
\* rows of R.
Pages(E, R, P, n) ==
    UNION {
      {[portal |-> p, elems |-> es, has_table |-> FALSE, rows |-> <<>>] : p \in P}
      \cup {[portal |-> p, elems |-> es, has_table |-> TRUE, rows |-> <<HeaderRow>> \o rs] :
              p \in P, rs \in SeqsUpTo(R, n - Len(es))}
      : es \in SeqsUpTo(E, n)}

Docs == Pages(ElemPool, RowPool, {"none", "script", "form"}, MaxFrags)

\* The pages served to the running service.
SvcPages == Pages({E_result, E_noname, E_portal, E_item}, {R_good}, {"none", "script"},
                  MaxSvcFrags)

EmptyPage == [portal |-> "none", elems |-> <<>>, has_table |-> FALSE, rows |-> <<>>]

\* What requests.get comes to: an exception, or a response with a status
\* and a body.
NoResponse == [kind |-> "none", status |-> 0, soup |-> EmptyPage]
Responses(D) ==
    {[kind |-> "network_error", status |-> 0, soup |-> EmptyPage]}
    \cup {[kind |-> "http", status |-> st, soup |-> EmptyPage] : st \in {404, 503}}
    \cup {[kind |-> "http", status |-> 200, soup |-> d] : d \in D}

\* response.raise_for_status() raises.
IsErrorStatus(st) == st >= 400 /\ st < 600

----------------------------------------------------------------------------
(* src/storage.py and src/notifier.py                                      *)

\* The file: whether it exists, its header line and its records, each the
\* text csv.writer wrote (without the line terminator).
NoFile == [exists |-> FALSE, header |-> <<>>, rows |-> <<>>]

\* FIELDNAMES, line 9.
FIELDNAMES ==
    << <<"n", "a", "m", "e">>, <<"b", "r", "e", "e", "d">>,
       <<"a", "g", "e", "_", "y", "e", "a", "r", "s">>, <<"s", "e", "x">>,
       <<"s", "i", "z", "e">>, <<"u", "r", "l">>,
       <<"i", "m", "a", "g", "e", "_", "u", "r", "l">> >>

\* Dog.to_dict()
to_dict(dog) ==
    [name |-> dog.name, breed |-> dog.breed, age_years |-> dog.age_years,
     sex |-> dog.sex, size |-> dog.size, url |-> dog.url, image_url |-> dog.image_url]

\* The values of a dict in the order of FIELDNAMES, as csv.DictWriter
\* passes them on. The age is written as its count of 1/624 years; no code
\* reads that column back.
DictValues(row) ==
    <<row.name, row.breed, Digits(row.age_years), row.sex, row.size, row.url,
      row.image_url>>

\* csv.writer, QUOTE_MINIMAL: a field is quoted when it holds the delimiter,
\* the quote character or a line break, and a quote in it is doubled.
NeedsQuote(field) ==
    \E i \in 1..Len(field) : field[i] \in {",", "\"", "\n", "\r"}

RECURSIVE Doubled(_)
Doubled(field) ==
    IF field = <<>> THEN <<>>
    ELSE (IF Head(field) = "\"" THEN <<"\"", "\"">> ELSE <<Head(field)>>)
         \o Doubled(Tail(field))

writerow(fields) ==
    Join([i \in 1..Len(fields) |->
             IF NeedsQuote(fields[i]) THEN <<"\"">> \o Doubled(fields[i]) \o <<"\"">>
             ELSE fields[i]],
         <<",">>)

\* csv.reader on one record, character by character: st is "start" at the
\* start of a field, "field" in an unquoted field, "quoted" in a quoted
\* field and "quote" after a quote inside a quoted field.
RECURSIVE ReadFrom(_, _, _, _, _)
ReadFrom(line, p, st, cur, fields) ==
    IF p > Len(line)
    THEN IF st = "start" /\ fields = <<>> THEN <<>> ELSE Append(fields, cur)
    ELSE LET c == line[p]
         IN  CASE st = "start" ->
                    IF c = "\"" THEN ReadFrom(line, p + 1, "quoted", <<>>, fields)
                    ELSE IF c = "," THEN ReadFrom(line, p + 1, "start", <<>>, Append(fields, <<>>))
                    ELSE ReadFrom(line, p + 1, "field", <<c>>, fields)
               [] st = "field" ->
                    IF c = "," THEN ReadFrom(line, p + 1, "start", <<>>, Append(fields, cur))
                    ELSE ReadFrom(line, p + 1, "field", Append(cur, c), fields)
               [] st = "quoted" ->
                    IF c = "\"" THEN ReadFrom(line, p + 1, "quote", cur, fields)
                    ELSE ReadFrom(line, p + 1, "quoted", Append(cur, c), fields)
               [] st = "quote" ->
                    IF c = "\"" THEN ReadFrom(line, p + 1, "quoted", Append(cur, c), fields)
                    ELSE IF c = "," THEN ReadFrom(line, p + 1, "start", <<>>, Append(fields, cur))
                    ELSE ReadFrom(line, p + 1, "field", Append(cur, c), fields)

readrow(line) == ReadFrom(line, 1, "start", <<>>, <<>>)

\* csv.DictReader: row[key] for a record, by the column the header gives
\* the key; None (restval) when the record is too short.
DictValue(header, line, key) ==
    LET names == readrow(header)
        cols == {k \in 1..Len(names) : names[k] = key}
        values == readrow(line)
    IN  IF cols = {} \/ Leftmost(cols) > Len(values) THEN None
        ELSE values[Leftmost(cols)]

load_existing_dogs(file) ==
    IF ~file.exists THEN {}
    ELSE {DictValue(file.header, file.rows[i], FIELDNAMES[1]) :
             i \in {j \in 1..Len(file.rows) : readrow(file.rows[j]) # <<>>}}

\* A variant of save_dogs that opens the file for appending: C15 tells it
\* from the mode "w" of the code.
save_dogs_appending(file, ds) ==
    [exists |-> TRUE,
     header |-> writerow(FIELDNAMES),
     rows |-> file.rows \o [i \in 1..Len(ds) |-> writerow(DictValues(to_dict(ds[i])))]]

save_dogs(file, ds) ==
    [exists |-> TRUE,
     header |-> writerow(FIELDNAMES),
     rows |-> [i \in 1..Len(ds) |-> writerow(DictValues(to_dict(ds[i])))]]

\* A variant of find_new_dogs that compares names without regard to case:
\* C11 tells it from the membership test of the code.
find_new_dogs_ignoring_case(current, known) ==
    SelectSeq(current, LAMBDA d : Lower(d.name) \notin {Lower(n) : n \in known})

find_new_dogs(current, known) == SelectSeq(current, LAMBDA d : d.name \notin known)

\* MAX_AGE_YEARS, by default.
MaxAgeYears == 5
max_age_years == MaxAgeYears * Year

----------------------------------------------------------------------------
(* scrape_dogs, step by step                                               *)

ScrapeIdle ==
    /\ response = NoResponse /\ exc = "none" /\ dogs = <<>> /\ consulted = <<>>
    /\ fetches = 0

CycleIdle ==
    /\ current_dogs = <<>> /\ known_dog_names = {} /\ new_dogs = <<>> /\ next_dog = 0
    /\ reads = 0 /\ writes = 0 /\ notified = <<>> /\ notified_before = {}

AgeIdle == age_input = None /\ age_given = <<>> /\ total_years = 0 /\ age_pc = "off"

\* A variant of the fetch without raise_for_status, in which the body of
\* an error response is parsed like any page: C4 tells it from the code.
FetchPage_without_raise_for_status(D) ==
    /\ pc = "fetch"
    /\ \E r \in Responses(D) :
          /\ response' = r
          /\ IF r.kind = "network_error"
             THEN pc' = "raised" /\ exc' = "transport"
             ELSE pc' = "result_divs" /\ exc' = exc
    /\ fetches' = fetches + 1
    /\ UNCHANGED <<dogs, consulted>>
    /\ UNCHANGED <<trigger, ticks, outcome, cycleVars, storeVars, ageVars, callVars>>

\* A variant of the fetch that tries once more after a failure: C19 tells
\* it from the code, which fetches once.
FetchPage_with_retry(D) ==
    /\ pc = "fetch"
    /\ \E r \in Responses(D) :
          /\ response' = r
          /\ IF r.kind = "network_error" \/ IsErrorStatus(r.status)
             THEN IF fetches = 0
                  THEN pc' = "fetch" /\ exc' = exc
                  ELSE pc' = "raised" /\ exc' = "transport"
             ELSE pc' = "result_divs" /\ exc' = exc
    /\ fetches' = fetches + 1
    /\ UNCHANGED <<dogs, consulted>>
    /\ UNCHANGED <<trigger, ticks, outcome, cycleVars, storeVars, ageVars, callVars>>

\* requests.get and raise_for_status: lines 106-107.
FetchPage(D) ==
    /\ pc = "fetch"
    /\ \E r \in Responses(D) :
          /\ response' = r
          /\ IF r.kind = "network_error" \/ IsErrorStatus(r.status)
             THEN pc' = "raised" /\ exc' = "transport"
             ELSE pc' = "result_divs" /\ exc' = exc
    /\ fetches' = fetches + 1
    /\ UNCHANGED <<dogs, consulted>>
    /\ UNCHANGED <<trigger, ticks, outcome, cycleVars, storeVars, ageVars, callVars>>

\* A variant of the orchestrator that keeps a detector's listings and goes
\* on to the next detector all the same: C1 tells it from the code.
Detector_without_return(at, name, d, next) ==
    /\ pc = at
    /\ consulted' = Append(consulted, name)
    /\ dogs' = IF d # <<>> THEN d ELSE dogs
    /\ pc' = next
    /\ UNCHANGED <<response, exc, fetches>>
    /\ UNCHANGED <<trigger, ticks, outcome, cycleVars, storeVars, ageVars, callVars>>

\* A detector was called and returned d: scrape_dogs returns d when it is
\* not empty, and goes on at `next` otherwise.
Detector(at, name, d, next) ==
    /\ pc = at
    /\ consulted' = Append(consulted, name)
    /\ IF d # <<>>
       THEN dogs' = d /\ pc' = "returned"
       ELSE dogs' = dogs /\ pc' = next
    /\ UNCHANGED <<response, exc, fetches>>
    /\ UNCHANGED <<trigger, ticks, outcome, cycleVars, storeVars, ageVars, callVars>>

\* Lines 111-114.
TryResultDivs ==
    Detector("result_divs", "A", _try_result_divs(response.soup, shelter_url),
             "petharbor_portal")

\* A variant in which the portal detector's answer is final as soon as its
\* signature matches, listings or none: C2 tells it from the code.
TryPetharborPortal_signature_wins ==
    /\ pc = "petharbor_portal"
    /\ consulted' = Append(consulted, "B")
    /\ IF is_petharbor(response.soup)
       THEN dogs' = _try_petharbor_portal(response.soup, shelter_url) /\ pc' = "returned"
       ELSE dogs' = dogs /\ pc' = "petharbor_classic"
    /\ UNCHANGED <<response, exc, fetches>>
    /\ UNCHANGED <<trigger, ticks, outcome, cycleVars, storeVars, ageVars, callVars>>

\* Lines 116-119.
TryPetharborPortal ==
    Detector("petharbor_portal", "B", _try_petharbor_portal(response.soup, shelter_url),
             "petharbor_classic")

\* Lines 121-124.
TryPetharborClassic ==
    Detector("petharbor_classic", "C", _try_petharbor_classic(response.soup, shelter_url),
             "generic_cards")

\* Lines 126-139: the generic cards are returned, listings or none.
GenericCards ==
    /\ pc = "generic_cards"
    /\ consulted' = Append(consulted, "D")
    /\ dogs' = generic_cards(response.soup, shelter_url)
    /\ pc' = "returned"
    /\ UNCHANGED <<response, exc, fetches>>
    /\ UNCHANGED <<trigger, ticks, outcome, cycleVars, storeVars, ageVars, callVars>>

ScrapeInit ==
    /\ pc = "fetch" /\ trigger = "call" /\ ticks = 0 /\ outcome = "none"
    /\ ScrapeIdle /\ CycleIdle /\ AgeIdle /\ CallIdle
    /\ csv_file = NoFile /\ csv_before = NoFile

ScrapeNext ==
    \/ FetchPage(Docs)
    \/ TryResultDivs
    \/ TryPetharborPortal
    \/ TryPetharborClassic
    \/ GenericCards

\* A second call of scrape_dogs, for which the shelter serves the page it
\* served for the first: the first call's page and list are kept in
\* call_input and call_output, and the second call has fetched.
ScrapeAgain ==
    /\ pc = "returned" /\ trigger = "call" /\ call_pc = "off"
    /\ call_input' = response /\ call_output' = dogs /\ call_pc' = "again"
    /\ response' = response /\ exc' = "none" /\ dogs' = <<>> /\ consulted' = <<>>
    /\ fetches' = 1
    /\ pc' = "result_divs"
    /\ UNCHANGED <<trigger, ticks, outcome, cycleVars, storeVars, ageVars>>

\* One call of scrape_dogs, on any page.
ScrapeSpec == ScrapeInit /\ [][ScrapeNext]_vars

RescrapeNext == ScrapeNext \/ ScrapeAgain

\* Two calls of scrape_dogs on one page.
RescrapeSpec == ScrapeInit /\ [][RescrapeNext]_vars

----------------------------------------------------------------------------
(* main.py: check_for_new_dogs and the main loop                           *)

\* check_for_new_dogs is called: its locals are fresh.
FreshLocals(how) ==
    /\ pc' = "fetch"
    /\ trigger' = how
    /\ response' = NoResponse /\ exc' = "none" /\ dogs' = <<>> /\ consulted' = <<>>
    /\ fetches' = 0
    /\ current_dogs' = <<>> /\ known_dog_names' = {} /\ new_dogs' = <<>> /\ next_dog' = 0
    /\ reads' = 0 /\ writes' = 0 /\ notified' = <<>>
    /\ csv_before' = csv_file
    /\ UNCHANGED <<csv_file, outcome, ageVars, callVars>>

StartCycle(how) == FreshLocals(how) /\ UNCHANGED notified_before

\* check_for_new_dogs returns: the start-up call returns to main, which
\* schedules the job and enters its loop; a scheduled call returns to
\* run_pending, which returns to the loop's sleep.
EndCycle(how) ==
    /\ outcome' = how
    /\ pc' = IF trigger = "startup" THEN "run_pending" ELSE "sleep"
    /\ ticks' = IF trigger = "startup" THEN 0 ELSE ticks

\* main, line 86: the check that runs at once.
Startup ==
    /\ pc = "startup"
    /\ StartCycle("startup")
    /\ UNCHANGED ticks

\* A variant in which the exception of scrape_dogs is not caught and ends
\* the process: C5 tells it from the code.
ScrapeFailed_uncaught ==
    /\ pc = "raised" /\ trigger # "call"
    /\ pc' = "exited" /\ outcome' = "crashed"
    /\ UNCHANGED <<trigger, ticks, scrapeVars, cycleVars, storeVars, ageVars, callVars>>

\* Lines 33-35: scrape_dogs raised.
ScrapeFailed ==
    /\ pc = "raised" /\ trigger # "call"
    /\ EndCycle("scrape_failed")
    /\ UNCHANGED <<trigger, scrapeVars, cycleVars, storeVars, ageVars, callVars>>

\* A variant without the early return on an empty list: the cycle goes on
\* to the store with no dogs. C3 tells it from the code.
ScrapeReturned_without_empty_check ==
    /\ pc = "returned" /\ trigger # "call"
    /\ current_dogs' = dogs
    /\ pc' = "load"
    /\ UNCHANGED <<trigger, ticks, outcome, scrapeVars, storeVars, ageVars, callVars>>
    /\ UNCHANGED <<known_dog_names, new_dogs, next_dog, reads, writes, notified, notified_before>>

\* Lines 32 and 37-39: scrape_dogs returned.
ScrapeReturned ==
    /\ pc = "returned" /\ trigger # "call"
    /\ current_dogs' = dogs
    /\ IF dogs = <<>>
       THEN EndCycle("no_dogs")
       ELSE pc' = "load" /\ UNCHANGED <<outcome, ticks>>
    /\ UNCHANGED <<trigger, scrapeVars, storeVars, ageVars, callVars>>
    /\ UNCHANGED <<known_dog_names, new_dogs, next_dog, reads, writes, notified, notified_before>>

\* A variant of the cycle that notifies before it saves: after the load
\* it goes to the loop of the notifications. C24 tells it from the code.
LoadKnown_then_notify ==
    /\ pc = "load"
    /\ known_dog_names' = load_existing_dogs(csv_file)
    /\ new_dogs' = find_new_dogs(current_dogs, known_dog_names')
    /\ reads' = reads + 1
    /\ next_dog' = 1
    /\ pc' = "notify"
    /\ UNCHANGED <<trigger, ticks, outcome, scrapeVars, storeVars, ageVars, callVars>>
    /\ UNCHANGED <<current_dogs, writes, notified, notified_before>>

\* Lines 41-42.
LoadKnown ==
    /\ pc = "load"
    /\ known_dog_names' = load_existing_dogs(csv_file)
    /\ new_dogs' = find_new_dogs(current_dogs, known_dog_names')
    /\ reads' = reads + 1
    /\ pc' = "save"
    /\ UNCHANGED <<trigger, ticks, outcome, scrapeVars, storeVars, ageVars, callVars>>
    /\ UNCHANGED <<current_dogs, next_dog, writes, notified, notified_before>>

\* A variant of the save that writes the new dogs only: C25 tells it from
\* the code, which writes the whole current list.
SaveCurrent_new_only ==
    /\ pc = "save"
    /\ csv_file' = save_dogs(csv_file, new_dogs)
    /\ writes' = writes + 1
    /\ next_dog' = 1
    /\ pc' = "notify"
    /\ UNCHANGED <<trigger, ticks, outcome, scrapeVars, csv_before, ageVars, callVars>>
    /\ UNCHANGED <<current_dogs, known_dog_names, new_dogs, reads, notified, notified_before>>

\* Line 45.
SaveCurrent ==
    /\ pc = "save"
    /\ csv_file' = save_dogs(csv_file, current_dogs)
    /\ writes' = writes + 1
    /\ next_dog' = 1
    /\ pc' = "notify"
    /\ UNCHANGED <<trigger, ticks, outcome, scrapeVars, csv_before, ageVars, callVars>>
    /\ UNCHANGED <<current_dogs, known_dog_names, new_dogs, reads, notified, notified_before>>

\* A variant of the loop that gives up at the first notification that
\* fails: C14 tells it from the loop of the code, which ignores the value
\* send_notification returns.
NotifyOne_until_failure ==
    /\ pc = "notify" /\ next_dog <= Len(new_dogs)
    /\ LET dog == new_dogs[next_dog]
       IN  IF dog.age_years <= max_age_years
           THEN \E ok \in BOOLEAN :
                   /\ notified' = Append(notified, [dog |-> dog, ok |-> ok])
                   /\ next_dog' = IF ok THEN next_dog + 1 ELSE Len(new_dogs) + 1
           ELSE notified' = notified /\ next_dog' = next_dog + 1
    /\ UNCHANGED <<pc, trigger, ticks, outcome, scrapeVars, storeVars, ageVars, callVars>>
    /\ UNCHANGED <<current_dogs, known_dog_names, new_dogs, reads, writes, notified_before>>

\* A variant of the loop that notifies only of dogs younger than the
\* maximum: C13 tells it from the comparison of the code.
NotifyOne_strictly_younger ==
    /\ pc = "notify" /\ next_dog <= Len(new_dogs)
    /\ LET dog == new_dogs[next_dog]
       IN  IF dog.age_years < max_age_years
           THEN \E ok \in BOOLEAN : notified' = Append(notified, [dog |-> dog, ok |-> ok])
           ELSE notified' = notified
    /\ next_dog' = next_dog + 1
    /\ UNCHANGED <<pc, trigger, ticks, outcome, scrapeVars, storeVars, ageVars, callVars>>
    /\ UNCHANGED <<current_dogs, known_dog_names, new_dogs, reads, writes, notified_before>>

\* A variant of the loop's test that takes a dog only when it is younger
\* than the maximum: C26 tells it from the code at a maximum of 0.
NotifyOneUnder_strictly(max) ==
    /\ pc = "notify" /\ next_dog <= Len(new_dogs)
    /\ LET dog == new_dogs[next_dog]
       IN  IF dog.age_years < max
           THEN \E ok \in BOOLEAN : notified' = Append(notified, [dog |-> dog, ok |-> ok])
           ELSE notified' = notified
    /\ next_dog' = next_dog + 1
    /\ UNCHANGED <<pc, trigger, ticks, outcome, scrapeVars, storeVars, ageVars, callVars>>
    /\ UNCHANGED <<current_dogs, known_dog_names, new_dogs, reads, writes, notified_before>>

\* Lines 48-62, for one dog, under the maximum age line 26 read:
\* send_notification returns True or False.
NotifyOneUnder(max) ==
    /\ pc = "notify" /\ next_dog <= Len(new_dogs)
    /\ LET dog == new_dogs[next_dog]
       IN  IF dog.age_years <= max
           THEN \E ok \in BOOLEAN : notified' = Append(notified, [dog |-> dog, ok |-> ok])
           ELSE notified' = notified
    /\ next_dog' = next_dog + 1
    /\ UNCHANGED <<pc, trigger, ticks, outcome, scrapeVars, storeVars, ageVars, callVars>>
    /\ UNCHANGED <<current_dogs, known_dog_names, new_dogs, reads, writes, notified_before>>

\* Lines 48-62, for one dog, under the default maximum age.
NotifyOne == NotifyOneUnder(max_age_years)

\* Line 64: the loop is over.
CheckComplete ==
    /\ pc = "notify" /\ next_dog > Len(new_dogs)
    /\ EndCycle("complete")
    /\ UNCHANGED <<trigger, scrapeVars, cycleVars, storeVars, ageVars, callVars>>

\* A variant in which the job is run by a scheduler of its own thread,
\* which may call check_for_new_dogs while a cycle is between its read
\* and its write of the store: C18 tells it from the loop of main.
RunPending_threaded ==
    /\ pc \in {"run_pending", "save"}
    /\ IF pc = "save" \/ ticks >= IntervalTicks
       THEN StartCycle("scheduled") /\ ticks' = 0
       ELSE /\ pc' = "sleep"
            /\ UNCHANGED <<trigger, ticks, outcome, scrapeVars, cycleVars, storeVars, ageVars, callVars>>

\* Line 94: schedule.run_pending() runs the job when it is due.
RunPending ==
    /\ pc = "run_pending"
    /\ IF ticks >= IntervalTicks
       THEN StartCycle("scheduled") /\ ticks' = 0
       ELSE /\ pc' = "sleep"
            /\ UNCHANGED <<trigger, ticks, outcome, scrapeVars, cycleVars, storeVars, ageVars, callVars>>

\* Line 95: time.sleep(60).
Sleep ==
    /\ pc = "sleep"
    /\ ticks' = IF ticks < IntervalTicks THEN ticks + 1 ELSE ticks
    /\ pc' = "run_pending"
    /\ UNCHANGED <<trigger, outcome, scrapeVars, cycleVars, storeVars, ageVars, callVars>>

Init ==
    /\ pc = "startup" /\ trigger = "none" /\ ticks = 0 /\ outcome = "none"
    /\ ScrapeIdle /\ CycleIdle /\ AgeIdle /\ CallIdle
    /\ csv_file = NoFile /\ csv_before = NoFile

Next ==
    \/ Startup
    \/ FetchPage(SvcPages)
    \/ TryResultDivs
    \/ TryPetharborPortal
    \/ TryPetharborClassic
    \/ GenericCards
    \/ ScrapeFailed
    \/ ScrapeReturned
    \/ LoadKnown
    \/ SaveCurrent
    \/ NotifyOne
    \/ CheckComplete
    \/ RunPending
    \/ Sleep

\* The service, from its start.
Spec == Init /\ [][Next]_vars

\* The service under the scheduling the process has: the handler of a
\* failed scrape returns, and the loop of main goes on calling run_pending
\* and sleep, each of which returns.
FairSpec ==
    Spec /\ WF_vars(ScrapeFailed) /\ WF_vars(RunPending) /\ WF_vars(Sleep)

----------------------------------------------------------------------------
(* find_new_dogs, called on its own                                        *)

\* The longest list of dogs find_new_dogs and save_dogs are called with.
MaxDogs == 3

\* Names that differ in case or in a trailing space only, and two
\* different dogs of one name.
t_b == <<"b">>
T_B_space == <<"B", " ">>

NamePool == {T_B, t_b, T_B_space, T_O}

Named(name) == Dog(name, <<>>, 0, <<>>, <<>>, <<>>, <<>>)

DogPool == {Named(n) : n \in NamePool} \cup {Dog(T_B, T_O, 0, <<>>, <<>>, <<>>, <<>>)}

DogLists == SeqsUpTo(DogPool, MaxDogs)

FindInit ==
    /\ pc = "off" /\ trigger = "none" /\ ticks = 0 /\ outcome = "none"
    /\ ScrapeIdle /\ CycleIdle /\ AgeIdle
    /\ csv_file = NoFile /\ csv_before = NoFile
    /\ call_input \in [current_dogs : DogLists, known_dog_names : SUBSET NamePool]
    /\ call_output = None
    /\ call_pc = "call"

\* The call: the list returned and the arguments as the call left them
\* (the comprehension builds a new list and writes to neither argument).
FindNewDogsCall ==
    /\ call_pc = "call"
    /\ call_output' = [new_dogs |-> find_new_dogs(call_input.current_dogs,
                                                  call_input.known_dog_names),
                       current_dogs |-> call_input.current_dogs,
                       known_dog_names |-> call_input.known_dog_names]
    /\ call_pc' = "returned"
    /\ UNCHANGED <<call_input, pc, trigger, ticks, outcome>>
    /\ UNCHANGED <<scrapeVars, cycleVars, storeVars, ageVars>>

FindNext == FindNewDogsCall

FindSpec == FindInit /\ [][FindNext]_vars

----------------------------------------------------------------------------
(* save_dogs and load_existing_dogs, called on their own                   *)

\* The longest list saved.
MaxRows == 2

\* The longest raw name handed to _clean_petharbor_name.
MaxNameLen == 6

\* Dogs whose name or breed holds the characters the CSV format gives a
\* meaning: the delimiter and the quote.
StoreDogs ==
    {Named(T_B), Named(<<"B", ",">>), Named(<<"\"", "B">>),
     Dog(T_O, <<",", "B">>, 2 * Year, <<>>, <<>>, <<>>, <<>>)}

StoreLists == SeqsUpTo(StoreDogs, MaxRows)

\* call_input holds the lists of the last two saves, call_output what the
\* last load returned.
StoreInit ==
    /\ pc = "off" /\ trigger = "none" /\ ticks = 0 /\ outcome = "none"
    /\ ScrapeIdle /\ CycleIdle /\ AgeIdle
    /\ csv_file = NoFile /\ csv_before = NoFile
    /\ call_input = <<>> /\ call_output = None /\ call_pc = "call"

SaveDogsCall ==
    /\ \E ds \in StoreLists :
          /\ csv_file' = save_dogs(csv_file, ds)
          /\ call_input' = IF call_input = <<>> THEN <<ds>>
                           ELSE <<call_input[Len(call_input)], ds>>
    /\ call_output' = None /\ call_pc' = "call"
    /\ UNCHANGED <<csv_before, pc, trigger, ticks, outcome>>
    /\ UNCHANGED <<scrapeVars, cycleVars, ageVars>>

LoadExistingDogsCall ==
    /\ call_pc = "call"
    /\ call_output' = load_existing_dogs(csv_file)
    /\ call_pc' = "returned"
    /\ UNCHANGED <<call_input, storeVars, pc, trigger, ticks, outcome>>
    /\ UNCHANGED <<scrapeVars, cycleVars, ageVars>>

StoreNext == SaveDogsCall \/ LoadExistingDogsCall

StoreSpec == StoreInit /\ [][StoreNext]_vars

----------------------------------------------------------------------------
(* check_for_new_dogs, called once, whatever scrape_dogs returns            *)

\* The ages of the dogs scrape_dogs returns here: unknown (0.0),
\* exactly the maximum, and a week more.
AgePool == {0, max_age_years, max_age_years + Year \div WeeksPerYear}

Aged(name, age_years) == Dog(name, <<>>, age_years, <<>>, <<>>, <<>>, <<>>)

CycleDogs == {Aged(n, a) : n \in {T_O, T_B}, a \in AgePool}

\* The files the cycle may find: none, or what an earlier cycle saved.
StoredFiles ==
    {NoFile} \cup {save_dogs(NoFile, ds) : ds \in SeqsUpTo({Named(T_O), Named(T_B)}, 2)}

CycleInit ==
    /\ pc = "fetch" /\ trigger = "startup" /\ ticks = 0 /\ outcome = "none"
    /\ ScrapeIdle /\ CycleIdle /\ AgeIdle /\ CallIdle
    /\ csv_file \in StoredFiles /\ csv_before = csv_file

\* Line 32: scrape_dogs returns a list, whatever the page it read.
ScrapeDogsReturns ==
    /\ pc = "fetch"
    /\ dogs' \in SeqsUpTo(CycleDogs, MaxDogs)
    /\ pc' = "returned"
    /\ UNCHANGED <<response, exc, consulted, fetches>>
    /\ UNCHANGED <<trigger, ticks, outcome, cycleVars, storeVars, ageVars, callVars>>

CycleNext ==
    \/ ScrapeDogsReturns
    \/ ScrapeReturned
    \/ LoadKnown
    \/ SaveCurrent
    \/ NotifyOne
    \/ CheckComplete

CycleSpec == CycleInit /\ [][CycleNext]_vars

----------------------------------------------------------------------------
(* _clean_petharbor_name, called on its own                                *)

\* The characters of the raw names: a letter, a blank and the parentheses.
NameChars == {"O", " ", "(", ")"}

\* The raw names the callers pass: get_text(strip=True) of an element, so
\* a text without blanks at its ends, the empty text included.
RawNames == {s \in SeqsUpTo(NameChars, MaxNameLen) : Strip(s) = s}

NameInit ==
    /\ pc = "off" /\ trigger = "none" /\ ticks = 0 /\ outcome = "none"
    /\ ScrapeIdle /\ CycleIdle /\ AgeIdle
    /\ csv_file = NoFile /\ csv_before = NoFile
    /\ call_input \in RawNames /\ call_output = None /\ call_pc = "call"

CleanNameCall ==
    /\ call_pc = "call"
    /\ call_output' = _clean_petharbor_name(call_input)
    /\ call_pc' = "cleaned"
    /\ UNCHANGED <<call_input, storeVars, pc, trigger, ticks, outcome>>
    /\ UNCHANGED <<scrapeVars, cycleVars, ageVars>>

NameNext == CleanNameCall

NameSpec == NameInit /\ [][NameNext]_vars

----------------------------------------------------------------------------
(* _extract_field, called on its own                                       *)

\* The most children of a card.
MaxNodes == 3

T_Sex == <<"S", "e", "x">>

\* <span class="gender">F</span>, <span class="sex">Sex</span>,
\* <span class="breed">B</span>, <dt>Sex</dt>, <dd></dd>, <dd>M</dd>,
\* <b>Sex:</b> and <span>Sex: M</span>.
NodePool ==
    {Node("span", <<kw_gender>>, <<"F">>),
     Node("span", <<kw_sex>>, T_Sex),
     Node("span", <<kw_breed>>, T_B),
     Node("dt", <<>>, T_Sex),
     Node("dd", <<>>, <<>>),
     Node("dd", <<>>, <<"M">>),
     Node("b", <<>>, T_Sex \o <<":">>),
     Node("span", <<>>, T_Sex \o <<":", " ", "M">>)}

\* The lists of field names: those of the sex and of the breed.
FieldLists == {<<kw_sex, kw_gender>>, <<kw_breed>>}

FieldInit ==
    /\ pc = "off" /\ trigger = "none" /\ ticks = 0 /\ outcome = "none"
    /\ ScrapeIdle /\ CycleIdle /\ AgeIdle
    /\ csv_file = NoFile /\ csv_before = NoFile
    /\ \E children \in SeqsUpTo(NodePool, MaxNodes), field_names \in FieldLists :
          call_input = [children |-> children, field_names |-> field_names]
    /\ call_output = None /\ call_pc = "call"

ExtractFieldCall ==
    /\ call_pc = "call"
    /\ call_output' = _extract_field(call_input.children, call_input.field_names)
    /\ call_pc' = "extracted"
    /\ UNCHANGED <<call_input, storeVars, pc, trigger, ticks, outcome>>
    /\ UNCHANGED <<scrapeVars, cycleVars, ageVars>>

FieldNext == ExtractFieldCall

FieldSpec == FieldInit /\ [][FieldNext]_vars

----------------------------------------------------------------------------
(* _parse_result_div, called on blocks with an anchor or an onclick        *)

\* The handlers of the onclick attributes: Details(, xDetails( and Go(.
HandlerOpens == {Details_open, <<"x">> \o Details_open, <<"G", "o", "(">>}

\* The arguments a call is written with: two or three of "a", "d", "x",
\* any of them possibly empty.
ArgLists ==
    {args \in SeqsUpTo({<<"a">>, <<"d">>, <<"x">>, <<>>}, 3) :
        /\ Len(args) >= 2
        /\ \A k \in 1..Len(args) : args[k] \in {<<>>, <<<<"a">>, <<"d">>, <<"x">>>>[k]}}

\* How an argument is quoted: 'a', "a", or 'a with no closing quote.
QuoteForms == {"single", "double", "open"}

Quoted(arg, form) ==
    CASE form = "single" -> <<"'">> \o arg \o <<"'">>
      [] form = "double" -> <<"\"">> \o arg \o <<"\"">>
      [] form = "open" -> <<"'">> \o arg

\* What separates the arguments: "," or ", ".
Separators == {<<",">>, <<",", " ">>}

RECURSIVE WriteArgs(_, _, _)
WriteArgs(args, forms, sep) ==
    IF args = <<>> THEN <<>>
    ELSE Quoted(Head(args), Head(forms))
         \o (IF Len(args) = 1 THEN <<>> ELSE sep \o WriteArgs(Tail(args), Tail(forms), sep))

\* The text of the attribute for a call.
WriteCall(c) == c.open \o WriteArgs(c.args, c.forms, c.sep) \o <<")">>

Calls_written ==
    {[open |-> o, args |-> a, forms |-> f, sep |-> sp] :
        o \in HandlerOpens, a \in ArgLists,
        f \in {<<x, y, z>> : x \in QuoteForms, y \in QuoteForms, z \in QuoteForms},
        sp \in Separators}

NoCall == [open |-> <<>>, args |-> <<>>, forms |-> <<>>, sep |-> <<>>]

\* The href of the block's anchor: None without an anchor.
AnchorHrefs == {None, <<>>, href_rel, href_abs}

\* <div id="Result_1" onclick="..."> with a line_Name "O" and, with an
\* href, an anchor.
Block(href, onclick) ==
    Elem("div", Result_1, <<>>, <<>>,
         [NoLines EXCEPT !["Name"] = Line(T_O, <<>>)],
         NoNameEl, <<>>, NoSpans, href, NoImg, onclick)

OnclickInit ==
    /\ pc = "off" /\ trigger = "none" /\ ticks = 0 /\ outcome = "none"
    /\ ScrapeIdle /\ CycleIdle /\ AgeIdle
    /\ csv_file = NoFile /\ csv_before = NoFile
    /\ \E href \in AnchorHrefs :
          \/ \E c \in Calls_written :
                call_input = [block |-> Block(href, WriteCall(c)), given |-> c]
          \/ call_input = [block |-> Block(href, <<>>), given |-> NoCall]
    /\ call_output = None /\ call_pc = "call"

ParseResultDivCall ==
    /\ call_pc = "call"
    /\ call_output' = _parse_result_div(call_input.block, shelter_url)
    /\ call_pc' = "parsed"
    /\ UNCHANGED <<call_input, storeVars, pc, trigger, ticks, outcome>>
    /\ UNCHANGED <<scrapeVars, cycleVars, ageVars>>

OnclickNext == ParseResultDivCall

OnclickSpec == OnclickInit /\ [][OnclickNext]_vars

----------------------------------------------------------------------------
(* _find_animal_cards, called on its own                                   *)

\* The most elements of a page here.
MaxCards == 3

\* <article class="card"> with a heading "O", inside no list or grid.
E_article ==
    Elem("article", <<>>, <<card>>, <<>>, NoLines,
         [tag |-> "h3", class |-> <<>>, text |-> T_O], <<>>, NoSpans, href_abs,
         NoImg, <<>>)

\* <div class="Listing"> with a heading "B".
E_listing ==
    Elem("div", <<>>, <<<<"L">> \o Tail(listing)>>, <<>>, NoLines,
         [tag |-> "h3", class |-> <<>>, text |-> T_B], <<>>, NoSpans, None,
         NoImg, <<>>)

\* The elements of the pages: cards of a selector, an item of a list, a
\* div and an article of the class "card", a div of the class "Listing",
\* and a div of no such class.
CardPool == {E_pet, E_item, E_blank, E_article, E_listing, E_paren}

CardsInit ==
    /\ pc = "off" /\ trigger = "none" /\ ticks = 0 /\ outcome = "none"
    /\ ScrapeIdle /\ CycleIdle /\ AgeIdle
    /\ csv_file = NoFile /\ csv_before = NoFile
    /\ \E elems \in SeqsUpTo(CardPool, MaxCards) :
          call_input = [portal |-> "none", elems |-> elems, has_table |-> FALSE,
                        rows |-> <<>>]
    /\ call_output = None /\ call_pc = "call"

FindAnimalCardsCall ==
    /\ call_pc = "call"
    /\ call_output' = _find_animal_cards(call_input)
    /\ call_pc' = "found"
    /\ UNCHANGED <<call_input, storeVars, pc, trigger, ticks, outcome>>
    /\ UNCHANGED <<scrapeVars, cycleVars, ageVars>>

CardsNext == FindAnimalCardsCall

CardsSpec == CardsInit /\ [][CardsNext]_vars

----------------------------------------------------------------------------
(* check_for_new_dogs, called once, with a store that can fail             *)

\* Line 41: load_existing_dogs raises (the file cannot be opened or read).
\* check_for_new_dogs does not catch it: the call ends with the exception,
\* which nothing in main catches either.
LoadRaised ==
    /\ pc = "load"
    /\ pc' = "exited" /\ outcome' = "crashed"
    /\ UNCHANGED <<trigger, ticks, scrapeVars, cycleVars, storeVars, ageVars, callVars>>

\* What a save that raises can leave on file: the file as it was (open
\* failed), the file emptied by open(..., "w"), or the header and the rows
\* written before the failure.
PartlySaved(file, ds) ==
    {file, [exists |-> TRUE, header |-> <<>>, rows |-> <<>>]}
    \cup {[exists |-> TRUE, header |-> save_dogs(file, ds).header,
           rows |-> SubSeq(save_dogs(file, ds).rows, 1, n)] : n \in 0..Len(ds) - 1}

\* Line 45: save_dogs raises.
SaveRaised ==
    /\ pc = "save"
    /\ csv_file' \in PartlySaved(csv_file, current_dogs)
    /\ pc' = "exited" /\ outcome' = "crashed"
    /\ UNCHANGED <<trigger, ticks, scrapeVars, cycleVars, csv_before, ageVars, callVars>>

FaultyNext ==
    \/ ScrapeDogsReturns
    \/ ScrapeReturned
    \/ LoadKnown
    \/ LoadRaised
    \/ SaveCurrent
    \/ SaveRaised
    \/ NotifyOne
    \/ CheckComplete

FaultySpec == CycleInit /\ [][FaultyNext]_vars

----------------------------------------------------------------------------
(* check_for_new_dogs, called again and again                              *)

\* The longest list scrape_dogs returns here.
MaxRoundDogs == 2

\* The dogs of the lists: two names, each of unknown age or too old.
RoundDogs ==
    {Aged(n, a) : n \in {T_O, T_B}, a \in {0, max_age_years + Year \div WeeksPerYear}}

RoundsInit ==
    /\ pc = "fetch" /\ trigger = "startup" /\ ticks = 0 /\ outcome = "none"
    /\ ScrapeIdle /\ CycleIdle /\ AgeIdle /\ CallIdle
    /\ csv_file = NoFile /\ csv_before = NoFile

\* Line 32: scrape_dogs returns a list, possibly empty.
ScrapeDogsReturnsFew ==
    /\ pc = "fetch"
    /\ dogs' \in SeqsUpTo(RoundDogs, MaxRoundDogs)
    /\ pc' = "returned"
    /\ UNCHANGED <<response, exc, consulted, fetches>>
    /\ UNCHANGED <<trigger, ticks, outcome, cycleVars, storeVars, ageVars, callVars>>

\* Line 32: scrape_dogs raises.
ScrapeDogsRaises ==
    /\ pc = "fetch"
    /\ exc' = "transport"
    /\ pc' = "raised"
    /\ UNCHANGED <<response, dogs, consulted, fetches>>
    /\ UNCHANGED <<trigger, ticks, outcome, cycleVars, storeVars, ageVars, callVars>>

\* The scheduler calls check_for_new_dogs again (main.py 89 and 94). The
\* names notified so far that every list saved since has held are kept
\* for the claims: the names the finished cycle notified join them, and a
\* cycle that saved a list drops the names the list does not hold.
NextCycle ==
    /\ pc \in {"run_pending", "sleep"}
    /\ FreshLocals("scheduled")
    /\ notified_before' =
          IF writes = 1
          THEN {n \in notified_before \cup {notified[k].dog.name : k \in 1..Len(notified)} :
                   \E i \in 1..Len(current_dogs) : current_dogs[i].name = n}
          ELSE notified_before
    /\ UNCHANGED ticks

RoundsNext ==
    \/ ScrapeDogsReturnsFew
    \/ ScrapeDogsRaises
    \/ ScrapeFailed
    \/ ScrapeReturned
    \/ LoadKnown
    \/ SaveCurrent
    \/ NotifyOne
    \/ CheckComplete
    \/ NextCycle

RoundsSpec == RoundsInit /\ [][RoundsNext]_vars

----------------------------------------------------------------------------
(* check_for_new_dogs, called once, under any MAX_AGE_YEARS                *)

\* The values of MAX_AGE_YEARS: 0, a week, and the default.
MaxAges == {0, Year \div WeeksPerYear, max_age_years}

\* The age texts of the listings: none, empty, "unknown", "2 years" and
\* "8 years".
ListedAges == {None, <<>>, Unknown, two_years, eight_years}

\* The dogs scrape_dogs returns: their age is parse_age of the age text.
ListedDogs == {Aged(n, parse_age(t)) : n \in {T_O, T_B}, t \in ListedAges}

\* call_input holds the MAX_AGE_YEARS the call reads at line 26.
FilterInit ==
    /\ pc = "fetch" /\ trigger = "startup" /\ ticks = 0 /\ outcome = "none"
    /\ ScrapeIdle /\ CycleIdle /\ AgeIdle
    /\ csv_file \in {NoFile, save_dogs(NoFile, <<Named(T_B)>>)} /\ csv_before = csv_file
    /\ call_input \in MaxAges /\ call_output = None /\ call_pc = "off"

\* Line 32: scrape_dogs returns a list.
ScrapeDogsReturnsListed ==
    /\ pc = "fetch"
    /\ dogs' \in SeqsUpTo(ListedDogs, MaxDogs)
    /\ pc' = "returned"
    /\ UNCHANGED <<response, exc, consulted, fetches>>
    /\ UNCHANGED <<trigger, ticks, outcome, cycleVars, storeVars, ageVars, callVars>>

\* Lines 48-62 under the configured maximum.
NotifyOneConfigured == NotifyOneUnder(call_input)

FilterNext ==
    \/ ScrapeDogsReturnsListed
    \/ ScrapeReturned
    \/ LoadKnown
    \/ SaveCurrent
    \/ NotifyOneConfigured
    \/ CheckComplete

FilterSpec == FilterInit /\ [][FilterNext]_vars

----------------------------------------------------------------------------
(* What the claims speak of.                                               *)

\* The detectors, in the order of their priority.
Order == <<"A", "B", "C", "D">>

\* What each detector makes of the fetched page, on its own.
Output(X) ==
    CASE X = "A" -> _try_result_divs(response.soup, shelter_url)
      [] X = "B" -> _try_petharbor_portal(response.soup, shelter_url)
      [] X = "C" -> _try_petharbor_classic(response.soup, shelter_url)
      [] X = "D" -> generic_cards(response.soup, shelter_url)

\* Whether the page carries the detector's signature.
Signature(X) ==
    CASE X = "A" -> result_divs(response.soup) # <<>>
      [] X = "B" -> is_petharbor(response.soup)
      [] X = "C" -> response.soup.has_table
      [] X = "D" -> TRUE

\* The parse of each fragment the detector enumerates, in document order.
FragmentParses(X) ==
    CASE X = "A" ->
           LET f == result_divs(response.soup)
           IN  [i \in 1..Len(f) |-> _parse_result_div(f[i], shelter_url)]
      [] X = "B" ->
           LET f == IF is_petharbor(response.soup) THEN portal_cards(response.soup) ELSE <<>>
           IN  [i \in 1..Len(f) |-> _parse_petharbor_card(f[i], shelter_url)]
      [] X = "C" ->
           LET f == IF response.soup.has_table THEN table_rows(response.soup) ELSE <<>>
           IN  [i \in 1..Len(f) |-> _parse_table_row(f[i], shelter_url)]
      [] X = "D" ->
           LET f == _find_animal_cards(response.soup)
           IN  [i \in 1..Len(f) |-> _parse_card(f[i], shelter_url)]

\* The listings of the fragments that parse, the others left out.
ParseableListings(X) ==
    LET ok == SelectSeq(FragmentParses(X), LAMBDA r : r.kind = "dog")
    IN  [i \in 1..Len(ok) |-> ok[i].dog]

Yielding == {k \in 1..Len(Order) : Output(Order[k]) # <<>>}

FetchSucceeded == response.kind = "http" /\ ~IsErrorStatus(response.status)

FetchFailed == response.kind = "network_error" \/ IsErrorStatus(response.status)

InLoop == pc \in {"sleep", "run_pending"}

----------------------------------------------------------------------------
(* The claims.                                                             *)

\* C1: scrape_dogs calls the detectors in the order A, B, C, D and returns
\* the output of the first one that yields a listing: the detectors called
\* are exactly those up to the winner, the list returned is the winner's
\* own output, and no detector after the winner is called (so a page with
\* a parseable Result block is never read by the card detectors).
C1_FirstYieldingDetectorWins ==
    /\ \E k \in 0..Len(Order) : consulted = SubSeq(Order, 1, k)
    /\ pc = "returned" =>
          IF Yielding = {}
          THEN dogs = <<>> /\ consulted = Order
          ELSE /\ dogs = Output(Order[Leftmost(Yielding)])
               /\ consulted = SubSeq(Order, 1, Leftmost(Yielding))

\* A page whose Result block parses and whose elements the generic card
\* parser would read differently: only detector A was called.
C1_Witness ==
    /\ pc = "returned" /\ consulted = <<"A">>
    /\ Output("D") # <<>> /\ Output("D") # dogs
    /\ Output("B") # <<>>

\* C2: when the signature of A, B or C matches and none of its fragments
\* parses, scrape_dogs does not return there: it calls the next detector,
\* and what it returns in the end is the output of the first detector
\* after it that yields listings.
C2_SignatureWithoutListingsIsAMiss ==
    \A k \in 1..3 :
        (k <= Len(consulted) /\ Signature(Order[k]) /\ Output(Order[k]) = <<>>) =>
            /\ ~(pc = "returned" /\ Len(consulted) = k)
            /\ Len(consulted) = k => pc = CASE k = 1 -> "petharbor_portal"
                                            [] k = 2 -> "petharbor_classic"
                                            [] k = 3 -> "generic_cards"
            /\ pc = "returned" =>
                  LET later == {j \in Yielding : j > k}
                  IN  IF later = {} THEN dogs = <<>>
                      ELSE dogs = Output(Order[Leftmost(later)])

\* The signatures of A, B and C all match, none of them parses a
\* fragment, and the generic cards are returned.
C2_Witness ==
    /\ pc = "returned" /\ consulted = Order
    /\ \A k \in 1..3 : Signature(Order[k]) /\ Output(Order[k]) = <<>>
    /\ dogs # <<>>

\* C3: when the fetch succeeds and all four detectors yield nothing,
\* scrape_dogs returns the empty list and raises nothing, and the cycle
\* ends as "no dogs": the store is not touched and nothing is notified.
C3_EmptyPageEndsCycleQuietly ==
    (trigger # "call" /\ FetchSucceeded /\ Yielding = {}) =>
        /\ exc = "none"
        /\ pc \notin {"raised", "load", "save", "notify"}
        /\ pc = "returned" => dogs = <<>>
        /\ notified = <<>> /\ reads = 0 /\ writes = 0
        /\ InLoop => outcome = "no_dogs" /\ dogs = <<>> /\ consulted = Order

\* A cycle over a page that bears the portal's token and has no listing
\* for any detector has ended, with dogs on file.
C3_Witness ==
    /\ InLoop /\ outcome = "no_dogs" /\ FetchSucceeded
    /\ Signature("B") /\ Yielding = {} /\ consulted = Order
    /\ notified = <<>> /\ csv_file.rows # <<>> /\ csv_file = csv_before

\* C4: when the fetch fails, on a network error or an error status,
\* scrape_dogs raises before any detector runs, and the cycle ends with
\* the CSV file as it was, not read and not written, and no notification
\* sent.
C4_FetchFailureLeavesStoreAlone ==
    /\ (pc # "fetch" /\ FetchFailed) => exc = "transport"
    /\ exc = "transport" =>
          /\ FetchFailed
          /\ pc = "raised" \/ (trigger # "call" /\ InLoop)
          /\ consulted = <<>> /\ dogs = <<>>
          /\ csv_file = csv_before /\ reads = 0 /\ writes = 0
          /\ notified = <<>>
          /\ InLoop => outcome = "scrape_failed"

\* A scheduled cycle that met an error status has ended, with dogs on file.
C4_Witness ==
    /\ InLoop /\ outcome = "scrape_failed" /\ trigger = "scheduled"
    /\ response.status = 503 /\ csv_file.exists /\ csv_file.rows # <<>>

\* C5: after a cycle whose fetch failed, be it the start-up cycle or a
\* scheduled one, the process is still running and a scheduled cycle
\* starts later.
C5_FailedCycleIsFollowedByAnother ==
    (exc = "transport") ~> (pc = "fetch" /\ trigger = "scheduled")

\* A scheduled cycle starts after a cycle that failed on its fetch.
C5_Witness ==
    pc = "fetch" /\ trigger = "scheduled" /\ outcome = "scrape_failed"

\* C6: a fragment whose parse raises is passed over and nothing else: the
\* detectors that were called and did not win have no parseable fragment,
\* the list returned is exactly the listings of the winner's fragments
\* that parse, in order, and the only exception scrape_dogs raises is the
\* one of the fetch.
C6_RaisingFragmentIsSkipped ==
    /\ exc \in {"none", "transport"}
    /\ pc = "raised" => FetchFailed
    /\ pc = "returned" =>
          /\ \A k \in 1..Len(consulted) - 1 : ParseableListings(Order[k]) = <<>>
          /\ dogs = ParseableListings(Order[Len(consulted)])

\* The winner has a fragment that raises before one that parses and after
\* another that parses.
C6_Witness ==
    /\ pc = "returned" /\ Len(dogs) = 2
    /\ LET r == FragmentParses(Order[Len(consulted)])
       IN  /\ Len(r) = 3
           /\ r[1].kind = "dog" /\ r[2].kind = "raised" /\ r[3].kind = "dog"

\* A name that ends in a parenthetical suffix: "(...)" and then nothing
\* but whitespace.
EndsInParenthetical(name) ==
    \E i \in 1..Len(name) :
        /\ name[i] = "("
        /\ \E j \in i + 1..Len(name) :
              /\ name[j] = ")"
              /\ \A k \in j + 1..Len(name) : IsSpace(name[k])

\* C7: every listing scrape_dogs returns has a name that is not empty and
\* does not end in a parenthetical identifier.
C7_NamesAreCleaned ==
    pc = "returned" =>
        \A i \in 1..Len(dogs) :
            ~Falsy(dogs[i].name) /\ ~EndsInParenthetical(dogs[i].name)

\* C8: in every listing scrape_dogs returns, the detail URL and the image
\* URL are each empty or absolute.
C8_UrlsAreEmptyOrAbsolute ==
    pc = "returned" =>
        \A i \in 1..Len(dogs) :
            /\ dogs[i].url = <<>> \/ IsAbsolute(dogs[i].url)
            /\ dogs[i].image_url = <<>> \/ IsAbsolute(dogs[i].image_url)

Count(n) == IF n = Absent THEN 0 ELSE n[1]

\* C9: parse_age returns years + months/12 + weeks/52 of the counts the
\* text was written from, a unit the text does not name counting 0,
\* whatever the spelling of the units, their order, what separates them
\* and a trailing "old"; and it never returns a negative value.
C9_ParseAgeSumsTheUnits ==
    age_pc = "returned" =>
        /\ total_years >= 0
        /\ age_given # <<>> =>
              total_years = Count(age_given[1]) * Year
                            + Count(age_given[2]) * (Year \div MonthsPerYear)
                            + Count(age_given[3]) * (Year \div WeeksPerYear)

\* "1 year, 4 months old" gave 1 + 4/12.
C9_Witness ==
    /\ age_pc = "returned"
    /\ age_input = <<"1", " ", "y", "e", "a", "r", ",", " ", "4", " ",
                     "m", "o", "n", "t", "h", "s", " ", "o", "l", "d">>
    /\ total_years = Year + 4 * (Year \div MonthsPerYear)

\* A text with no age in it: no text, a text without a digit, a text of
\* digits and whitespace alone, or a text that names no unit.
NoAge(text) ==
    \/ text = None
    \/ \A i \in 1..Len(text) : ~IsDigit(text[i])
    \/ \A i \in 1..Len(text) : IsDigit(text[i]) \/ IsSpace(text[i])
    \/ \A i \in 1..Len(text) : text[i] \notin {"y", "m", "w", "Y", "M", "W"}

\* C10: parse_age returns 0 for None, for the empty text and for every
\* text that holds no age.
C10_NoAgeGivesZero ==
    (age_pc = "returned" /\ NoAge(age_input)) => total_years = 0

\* "unknown" gave 0.
C10_Witness ==
    age_pc = "returned" /\ age_input = Unknown /\ total_years = 0

\* The positions of the current list whose name is not known.
NewPositions == {i \in 1..Len(call_input.current_dogs) :
                    call_input.current_dogs[i].name \notin call_input.known_dog_names}

\* C11: find_new_dogs returns the listings of current whose name is not in
\* known, compared as exact strings, each as often as it occurs and in the
\* order of current: nothing when every name is known, all of current when
\* known is empty; and both arguments are after the call what they were.
C11_FindNewDogsFilters ==
    call_pc = "returned" =>
        LET current == call_input.current_dogs
            new == call_output.new_dogs
        IN  /\ Len(new) = Cardinality(NewPositions)
            /\ \A i \in NewPositions :
                  new[Cardinality({j \in NewPositions : j <= i})] = current[i]
            /\ (\A i \in 1..Len(current) : current[i].name \in call_input.known_dog_names)
                  => new = <<>>
            /\ call_input.known_dog_names = {} => new = current
            /\ call_output.current_dogs = current
            /\ call_output.known_dog_names = call_input.known_dog_names

\* "b" is known: of "B", "b", "B" both dogs named "B" are new, the one
\* named "b" is not.
C11_Witness ==
    /\ call_pc = "returned"
    /\ call_input.known_dog_names = {t_b}
    /\ call_input.current_dogs = <<Named(T_B), Named(t_b), Named(T_B)>>
    /\ call_output.new_dogs = <<Named(T_B), Named(T_B)>>

\* The names of a list of dogs.
Names(ds) == {ds[i].name : i \in 1..Len(ds)}

\* C12: at the end of every cycle whose fetch succeeded, however many
\* listings were scraped, the names on file are exactly the names scraped
\* in that cycle.
C12_SnapshotIsTheCycleList ==
    (trigger # "call" /\ InLoop /\ FetchSucceeded) =>
        load_existing_dogs(csv_file) = Names(dogs)

\* The positions of the scraped list whose dog is due a notification: its
\* name is not on file as the cycle starts and its age is within the
\* maximum.
Due == {i \in 1..Len(current_dogs) :
            /\ current_dogs[i].name \notin load_existing_dogs(csv_before)
            /\ current_dogs[i].age_years <= max_age_years}

\* C13: in every cycle send_notification is called once for each listing
\* whose name is not in the snapshot the cycle loaded and whose age is at
\* most the maximum, in the order of the scraped list, and for no other
\* listing.
C13_OneCallPerDueListing ==
    /\ \A k \in 1..Len(notified) :
          /\ notified[k].dog.name \notin load_existing_dogs(csv_before)
          /\ notified[k].dog.age_years <= max_age_years
    /\ pc \in {"save", "notify"} => known_dog_names = load_existing_dogs(csv_before)
    /\ (InLoop /\ outcome = "complete") =>
          /\ Len(notified) = Cardinality(Due)
          /\ \A i \in Due :
                notified[Cardinality({j \in Due : j <= i})].dog = current_dogs[i]
    /\ (InLoop /\ outcome # "complete") => notified = <<>>

\* A cycle has ended that scraped a dog on file, a new dog a week over
\* the maximum age and a new dog of exactly the maximum age: the last one
\* alone was notified of.
C13_Witness ==
    /\ InLoop /\ outcome = "complete"
    /\ load_existing_dogs(csv_before) = {T_O}
    /\ current_dogs = <<Aged(T_O, 0), Aged(T_B, max_age_years + Year \div WeeksPerYear),
                        Aged(T_B, max_age_years)>>
    /\ Len(notified) = 1 /\ notified[1].dog = Aged(T_B, max_age_years)

\* The dogs send_notification was called with, in order, without the
\* values it returned.
Calls == [k \in 1..Len(notified) |-> notified[k].dog]

WithinMaxAge(dog) == dog.age_years <= max_age_years

\* C14: what send_notification returns has no influence on the core.
\* The calls made so far are those the new dogs before the loop's position
\* call for, whatever the earlier calls returned; a step of the loop moves
\* to the next dog and changes nothing else, and the step after the loop
\* ends the cycle as complete with the file as save_dogs left it, whatever
\* the calls returned; and the values returned are forgotten when the next
\* cycle starts.
C14_NotificationOutcomeIsIgnored ==
    /\ [](/\ pc = "notify" =>
               Calls = SelectSeq(SubSeq(new_dogs, 1, next_dog - 1), WithinMaxAge)
          /\ (InLoop /\ outcome = "complete") =>
               /\ Calls = SelectSeq(new_dogs, WithinMaxAge)
               /\ csv_file = save_dogs(csv_before, current_dogs)
          /\ pc = "fetch" => notified = <<>>)
    /\ [][pc = "notify" =>
            IF next_dog <= Len(new_dogs)
            THEN /\ pc' = "notify" /\ next_dog' = next_dog + 1
                 /\ UNCHANGED <<trigger, ticks, outcome, scrapeVars, storeVars,
                                current_dogs, known_dog_names, new_dogs, reads, writes>>
            ELSE /\ pc' = (IF trigger = "startup" THEN "run_pending" ELSE "sleep")
                 /\ outcome' = "complete"
                 /\ UNCHANGED <<trigger, scrapeVars, storeVars, cycleVars>>]_vars

\* A cycle has ended in which the first notification failed and the
\* second, made all the same, succeeded.
C14_Witness ==
    /\ InLoop /\ outcome = "complete"
    /\ Len(notified) = 2 /\ ~notified[1].ok /\ notified[2].ok

\* C15: load_existing_dogs returns the empty set when the file does not
\* exist, and otherwise exactly the names of the list of the last save_dogs,
\* whatever was saved before.
C15_StoreIsReplacedInFull ==
    call_pc = "returned" =>
        /\ call_input = <<>> => (~csv_file.exists /\ call_output = {})
        /\ call_input # <<>> => call_output = Names(call_input[Len(call_input)])

\* Two dogs were saved, then one other dog whose name holds a quote, and
\* the load returned that name alone.
C15_Witness ==
    /\ call_pc = "returned" /\ Len(call_input) = 2
    /\ call_input[1] = <<Named(T_B), Named(<<"B", ",">>)>>
    /\ call_input[2] = <<Named(<<"\"", "B">>)>>
    /\ call_output = {<<"\"", "B">>}

\* The nodes of the page a detector draws its fragments from, in document
\* order: the rows of the table after its header for C, the elements for
\* the others.
Document(X) ==
    IF X = "C" THEN (IF response.soup.has_table THEN Tail(response.soup.rows) ELSE <<>>)
    ELSE response.soup.elems

\* The fragments a detector enumerates.
Fragments(X) ==
    CASE X = "A" -> result_divs(response.soup)
      [] X = "B" -> IF is_petharbor(response.soup) THEN portal_cards(response.soup) ELSE <<>>
      [] X = "C" -> IF response.soup.has_table THEN table_rows(response.soup) ELSE <<>>
      [] X = "D" -> _find_animal_cards(response.soup)

ParseBy(X, fragment) ==
    CASE X = "A" -> _parse_result_div(fragment, shelter_url)
      [] X = "B" -> _parse_petharbor_card(fragment, shelter_url)
      [] X = "C" -> _parse_table_row(fragment, shelter_url)
      [] X = "D" -> _parse_card(fragment, shelter_url)

\* The positions in the document of the fragments of X that parse.
ListedPositions(X) ==
    {i \in 1..Len(Document(X)) :
        /\ \E k \in 1..Len(Fragments(X)) : Fragments(X)[k] = Document(X)[i]
        /\ ParseBy(X, Document(X)[i]).kind = "dog"}

CodeStarts(name) ==
    {k \in 1..Len(name) :
        /\ name[k] = "(" /\ name[Len(name)] = ")"
        /\ \A i \in k + 1..Len(name) - 1 : name[i] # ")"}

\* C17: _clean_petharbor_name removes a trailing parenthetical code and the
\* whitespace around it, leaves a name without such a code unchanged, and
\* returns None when nothing remains.
C17_NameIsCleaned ==
    call_pc = "cleaned" =>
        LET K == CodeStarts(call_input)
            first == CHOOSE k \in K : \A j \in K : k <= j
            kept == IF K = {} THEN call_input
                    ELSE Strip(SubSeq(call_input, 1, first - 1))
        IN  call_output = IF kept = <<>> THEN None ELSE kept

\* "OO (O)" has been cleaned to "OO".
C17_Witness ==
    /\ call_pc = "cleaned"
    /\ call_input = <<"O", "O", " ", "(", "O", ")">>
    /\ call_output = <<"O", "O">>

\* C18: cycles run one at a time. A cycle starts only when none is in
\* progress; it reads the store at most once and writes it at most once;
\* the write is the step that follows the read of the same cycle, so that
\* no access of another cycle falls between them; the file changes in
\* that step only.
C18_CyclesRunOneAtATime ==
    /\ [](/\ reads <= 1 /\ writes <= reads
          /\ (reads = 1 /\ writes = 0) => pc = "save")
    /\ [][/\ (pc' = "fetch" /\ pc # "fetch") => pc \in {"startup", "run_pending"}
          /\ (reads' = 1 /\ reads = 0) => (pc = "load" /\ pc' = "save")
          /\ pc = "save" => (pc' = "notify" /\ writes' = 1 /\ reads' = 1)
          /\ (writes' = 1 /\ writes = 0) => pc = "save"
          /\ csv_file' # csv_file => (pc = "save" /\ csv_before' = csv_before)]_vars

\* A scheduled cycle has read the snapshot an earlier cycle wrote and has
\* replaced it by another one.
C18_Witness ==
    /\ trigger = "scheduled" /\ reads = 1 /\ writes = 1
    /\ csv_before.exists /\ csv_before.rows # <<>>
    /\ csv_file # csv_before
    /\ known_dog_names = load_existing_dogs(csv_before)

\* C19: a cycle fetches exactly once. No fetch has been made before the
\* call of requests.get, and exactly one from then on to the end of the
\* cycle, whether the fetch failed or the detectors fell through.
C19_OneFetchPerCycle ==
    IF pc \in {"startup", "fetch"} THEN fetches = 0 ELSE fetches = 1

\* After a cycle whose fetch failed, a scheduled cycle has fallen through
\* to the last detector, with one fetch.
C19_Witness ==
    /\ outcome = "scrape_failed" /\ trigger = "scheduled"
    /\ pc = "returned" /\ consulted = Order /\ fetches = 1

\* What one strategy makes of one field name, on its own: the text of the
\* first element whose class holds the name and whose text is more than a
\* label; the text of the dd that follows the first dt holding the name;
\* what follows the label in the first text that holds "name:".
Yield(children, field_name, strategy) ==
    CASE strategy = 1 ->
           LET at == {i \in 1..Len(children) :
                         /\ \E k \in 1..Len(children[i].class) :
                               Contains(Lower(children[i].class[k]), field_name)
                         /\ ~LabelOnly(Strip(children[i].text), field_name)}
           IN  IF at = {} THEN <<>> ELSE Strip(children[Leftmost(at)].text)
      [] strategy = 2 ->
           LET dt == {i \in 1..Len(children) :
                         /\ children[i].tag = "dt"
                         /\ Contains(Lower(children[i].text), field_name)}
               dd == {j \in 1..Len(children) :
                         dt # {} /\ j > Leftmost(dt) /\ children[j].tag = "dd"}
           IN  IF dd = {} THEN <<>> ELSE Strip(children[Leftmost(dd)].text)
      [] strategy = 3 ->
           LET at == {i \in 1..Len(children) :
                         LabelPositions(children[i].text, field_name) # {}}
           IN  IF at = {} THEN <<>>
               ELSE AfterLabel(Strip(children[Leftmost(at)].text), field_name)

\* The attempts in the order of the cascade: every strategy of the first
\* field name, then every strategy of the second.
Attempts(field_names) ==
    [n \in 1..3 * Len(field_names) |->
        [field_name |-> field_names[(n + 2) \div 3], strategy |-> ((n - 1) % 3) + 1]]

\* C20: _extract_field returns the value of the first attempt, in the
\* order of the field names and of the strategies, that yields more than
\* an empty or label-only text, and the empty text only when no attempt
\* yields a value.
C20_FirstRealValueIsReturned ==
    call_pc = "extracted" =>
        LET children == call_input.children
            tries == Attempts(call_input.field_names)
            real == {n \in 1..Len(tries) :
                        ~LabelOnly(Yield(children, tries[n].field_name, tries[n].strategy),
                                   tries[n].field_name)}
        IN  call_output = IF real = {} THEN <<>>
                          ELSE Yield(children, tries[Leftmost(real)].field_name,
                                     tries[Leftmost(real)].strategy)

\* The data rows of the table: every row after the header row.
DataRows == IF response.soup.rows = <<>> THEN <<>> ELSE Tail(response.soup.rows)

\* The address of the link of column 0, resolved ("" without a link).
RowLink(row) ==
    IF row[1].href = None THEN <<>> ELSE _resolve_url(row[1].href, shelter_url)

\* A row of at least 6 columns whose column 1 holds a usable name.
NamedRow(row) ==
    /\ Len(row) >= 6
    /\ _clean_petharbor_name(Strip(row[2].text)) # None

\* The listing of a row, by the roles of its columns.
RowListing(row) ==
    Dog(_clean_petharbor_name(Strip(row[2].text)), Strip(row[5].text),
        parse_age(Strip(row[6].text)), Strip(row[3].text), <<>>, RowLink(row), <<>>)

\* The detector of the classic table has run on a page with the table.
ClassicRan ==
    /\ \E k \in 1..Len(consulted) : consulted[k] = "C"
    /\ response.soup.has_table

\* C21, as stated: the classic detector's result holds one listing for
\* every data row of at least 6 columns with a usable name.
C21_EveryNamedRowIsListed ==
    ClassicRan =>
        Len(Output("C")) = Cardinality({i \in 1..Len(DataRows) : NamedRow(DataRows[i])})

\* C21, amended: the classic detector's result holds, in the order of the
\* table, one listing for every data row of at least 6 columns with a
\* usable name whose link, if it has one, can be resolved; the listing has
\* the link of column 0, the cleaned name of column 1, the sex of column 2,
\* the breed of column 4 and the age of column 5. The header row, shorter
\* rows and rows whose link cannot be resolved are passed over.
C21_ResolvableNamedRowsAreListed ==
    ClassicRan =>
        LET at == {i \in 1..Len(DataRows) :
                      NamedRow(DataRows[i]) /\ RowLink(DataRows[i]) # UrlError}
        IN  /\ Len(Output("C")) = Cardinality(at)
            /\ \A i \in at :
                  Output("C")[Cardinality({j \in at : j <= i})] = RowListing(DataRows[i])

\* The classic detector has won with two listings, from a table that also
\* holds a row of fewer than 6 columns.
C21_Witness ==
    /\ pc = "returned" /\ consulted = <<"A", "B", "C">>
    /\ Len(dogs) = 2 /\ dogs = Output("C")
    /\ \E i \in 1..Len(DataRows) : Len(DataRows[i]) < 6

\* The absolute address of the path /s1/Details/s2/s3 on the page's host
\* (with an empty s1 the path starts with "//" and names the host itself).
DetailsUrl(args) ==
    LET path == <<"/">> \o args[1] \o <<"/", "D", "e", "t", "a", "i", "l", "s", "/">>
                \o args[2] \o <<"/">> \o args[3]
    IN  IF args[1] # <<>>
        THEN shelter_url.scheme \o <<":", "/", "/">> \o shelter_url.netloc \o path
        ELSE shelter_url.scheme \o <<":">> \o path

\* The handler of the call written is Details (after any prefix).
CallsDetails(c) == c.open \in {Details_open, <<"x">> \o Details_open}

LooksLikeCard(e) ==
    \E k \in 1..Len(e.class) :
        \/ Contains(Lower(e.class[k]), card)
        \/ Contains(Lower(e.class[k]), item)
        \/ Contains(Lower(e.class[k]), listing)

\* C23: the fragments of the generic fallback are the matches of the first
\* selector of the list that matches an element; when no selector matches,
\* every element whose class holds "card", "item" or "listing", whatever
\* its tag; and none only when the page has no such element.
C23_AnyTagFallsBack ==
    call_pc = "found" =>
        LET elems == call_input.elems
            hits == {k \in 1..SelectorCount : \E i \in 1..Len(elems) : Selects(k, elems[i])}
        IN  /\ call_output =
                  IF hits # {}
                  THEN SelectSeq(elems, LAMBDA e : Selects(Leftmost(hits), e))
                  ELSE SelectSeq(elems, LooksLikeCard)
            /\ call_output = <<>> => \A i \in 1..Len(elems) : ~LooksLikeCard(elems[i])

\* C24: a notification is sent only after the snapshot has been replaced
\* by the cycle's list, and a cycle whose load or save raised has sent
\* none.
C24_SaveBeforeNotify ==
    /\ [][notified' # notified =>
             /\ writes = 1
             /\ csv_file = save_dogs(csv_before, current_dogs)
             /\ load_existing_dogs(csv_file) = Names(current_dogs)]_vars
    /\ [](outcome = "crashed" => notified = <<>>)

\* A notification has been sent in a cycle that replaced an earlier
\* snapshot by its own list.
C24_Witness ==
    /\ notified # <<>> /\ writes = 1
    /\ csv_before.rows # <<>> /\ csv_file # csv_before
    /\ csv_file = save_dogs(csv_before, current_dogs)

\* C25: a name notified in an earlier cycle is not notified again as long
\* as every list saved since has held it: whatever cycles came between
\* (failed fetches, empty scrapes, failed notifications), it can be
\* notified again only after a cycle that saved a list without it.
C25_NoSecondNotification ==
    [][Len(notified') > Len(notified) =>
          notified'[Len(notified')].dog.name \notin notified_before]_vars

\* A cycle is complete in which "O", notified in an earlier cycle and on
\* every list saved since, was scraped again at an age within the maximum
\* and was not notified, while another dog was.
C25_Witness ==
    /\ pc = "sleep" /\ outcome = "complete"
    /\ T_O \in notified_before
    /\ current_dogs = <<Aged(T_O, 0), Aged(T_B, 0)>>
    /\ Len(notified) = 1 /\ notified[1].dog = Aged(T_B, 0) /\ ~notified[1].ok

\* The age texts from which no age can be read.
UnknownAges == {t \in ListedAges : NoAge(t)}

\* The positions of the scraped list whose dog is new and of unknown age.
NewOfUnknownAge ==
    {i \in 1..Len(current_dogs) :
        /\ current_dogs[i].name \notin load_existing_dogs(csv_before)
        /\ \E t \in UnknownAges : current_dogs[i] = Aged(current_dogs[i].name, parse_age(t))}

\* C26: a new listing whose age text holds no age has age_years = 0 and,
\* under every maximum age from 0 up, send_notification has been called
\* for it when the cycle is complete.
C26_UnknownAgeIsNotified ==
    /\ \A t \in UnknownAges : parse_age(t) = 0
    /\ (InLoop /\ outcome = "complete") =>
          \A i \in NewOfUnknownAge :
              /\ current_dogs[i].age_years = 0
              /\ Cardinality({k \in 1..Len(notified) : notified[k].dog = current_dogs[i]})
                    = Cardinality({j \in NewOfUnknownAge : current_dogs[j] = current_dogs[i]})

\* Under a maximum age of 0 a cycle is complete in which the new dog "O" of
\* unknown age was notified and the new dog "B" of 2 years was not.
C26_Witness ==
    /\ InLoop /\ outcome = "complete" /\ call_input = 0
    /\ csv_before = NoFile
    /\ current_dogs = <<Aged(T_B, parse_age(two_years)), Aged(T_O, parse_age(Unknown))>>
    /\ Len(notified) = 1 /\ notified[1].dog = Aged(T_O, 0)

=============================================================================
